---------------------------- MODULE Spec2Model ----------------------------
(***************************************************************************)
(* A model of the tv-room gallery: the wall layout of ExhibitionScene      *)
(* (addVintageTVWall) and the first-person controller FPSCameraControls.   *)
(*                                                                         *)
(* Numbers are fixed point.  Lengths of the layout are in units of 0.005 m *)
(* (roomSize 15 is 3000, a small exhibit is 160 x 120), so that every      *)
(* anchor the sampled random values produce is an integer.                 *)
(***************************************************************************)
EXTENDS Integers, Sequences, FiniteSets

VARIABLES
    \* ---- ExhibitionScene.addVintageTVWall ----
    focus,        \* input: the wall during whose layout Math.random() varies
    lpc,          \* position in addVintageTVWall: "while", "tries", "done"
    wallIdx,      \* index into walls of the wall the forEach callback is on
    placedTVs,    \* the callback's local list of accepted footprints
    tvIndex,      \* the callback's local count of placed exhibits
    attempts,     \* the callback's local count of outer attempts
    tries,        \* the inner for loop's counter
    randomSize,   \* the size class the packer drew for the current attempt
    vintageTVs,   \* this.vintageTVs: the exhibits of the scene, in order
    \* ---- FPSCameraControls ----
    isPointerLocked,  \* this.isPointerLocked: Captured (TRUE) or Released
    keys,             \* this.keys: the key codes whose entry is true
    pitch,            \* this.pitch, in 1e-5 rad
    yaw,              \* this.yaw, in 1e-5 rad
    velocity,         \* this.velocity, <<x, y, z>> in 1e-5 units per tick
    acceleration,     \* this.acceleration, <<x, y, z>> in 1e-5 units
    bounds,           \* this.bounds
    position,         \* camera.position, <<x, y, z>> in 1e-5 units
    cameraRotation,   \* camera.rotation, <<x, y>> in 1e-5 rad (order YXZ)
    listeners,        \* the controller's handlers registered with the host
    \* ---- the host (document, pointer lock) ----
    pointerLockElement, \* document.pointerLockElement: "none", "own", "other"
    lockPending,      \* a requestPointerLock() the host has not answered
    exitPending,      \* an exitPointerLock() the host has not carried out
    \* ---- bookkeeping of the model ----
    disposed,         \* dispose() has been called
    ticks,            \* number of update() calls so far
    downRun,          \* pixels of downward look since the last other look
    turns,            \* the non-zero movementX of the Captured pointer
                      \* events so far, in order: this.yaw, as a double,
                      \* is 0 with each movementX * sensitivity taken off
    restRun,          \* Captured ticks with no key held since the last
                      \* Captured tick with a key held
    idleRun,          \* ticks in a row, up to now, with no key held
    op,               \* the last operation: its name, argument and host call
    \* ---- VintageTV, and the staggered start of ExhibitionScene ----
    exhibits,         \* every VintageTV constructed so far, in order
    outerTimer,       \* the 2000 ms timer: "none", "pending" or "fired"
    innerTimers,      \* the pending timers of the staggered start
    playCalls,        \* the exhibits the timers called playVideo() on, in order
    toggles,          \* number of App.toggleVideo() calls so far
    sceneDisposed,    \* ExhibitionScene.dispose() has been called
    \* ---- App ----
    isRunning,        \* this.isRunning
    animationId,      \* this.animationId, 0 for null
    frameRequests,    \* the host's pending requestAnimationFrame callbacks
    rafCount,         \* number of requestAnimationFrame calls so far
    lastTime,         \* this.lastTime, in thirds of a millisecond
    targetFPS,        \* this.targetFPS
    frameInterval,    \* this.frameInterval, in thirds of a millisecond
    now,              \* performance.now(), in thirds of a millisecond
    renders,          \* number of renderer.render() calls so far
    appListeners,     \* the App's listeners registered with window and document
    bindCount,        \* number of functions made by bind() so far
    appDisposed       \* App.dispose() has been called

layoutVars == <<focus, lpc, wallIdx, placedTVs, tvIndex, attempts, tries,
                randomSize, vintageTVs>>

navVars == <<isPointerLocked, keys, pitch, yaw, velocity, acceleration,
             bounds, position, cameraRotation, listeners,
             pointerLockElement, lockPending, exitPending,
             disposed, ticks, downRun, turns, restRun, idleRun, op>>

\* the controller and the host without the record of the last operation
navState == <<isPointerLocked, keys, pitch, yaw, velocity, acceleration,
              bounds, position, cameraRotation, listeners,
              pointerLockElement, lockPending, exitPending,
              disposed, ticks, downRun, turns, restRun, idleRun>>

sceneVars == <<exhibits, outerTimer, innerTimers, playCalls, toggles,
               sceneDisposed>>

appVars == <<isRunning, animationId, frameRequests, rafCount, lastTime,
             targetFPS, frameInterval, now,
             renders, appListeners, bindCount, appDisposed>>

vars == <<focus, lpc, wallIdx, placedTVs, tvIndex, attempts, tries,
          randomSize, vintageTVs,
          isPointerLocked, keys, pitch, yaw, velocity, acceleration,
          bounds, position, cameraRotation, listeners,
          pointerLockElement, lockPending, exitPending,
          disposed, ticks, downRun, turns, restRun, idleRun, op,
          exhibits, outerTimer, innerTimers, playCalls, toggles,
          sceneDisposed,
          isRunning, animationId, frameRequests, rafCount, lastTime,
          targetFPS, frameInterval, now,
          renders, appListeners, bindCount, appDisposed>>

---------------------------------------------------------------------------
(* Bounds of the model.  The source fixes maxTVsPerWall = 10, maxAttempts  *)
(* = 100 and 50 sampling tries per attempt; the model keeps the loops and  *)
(* runs them with these smaller limits.                                    *)
maxTVsPerWall == 2
maxAttempts == 3
TriesPerAttempt == 2

(* Math.random() is modelled as r / RandDen for a numerator r.  While the  *)
(* focus wall is laid out r ranges over RandVals; on the other walls it is *)
(* the midpoint RandMid / RandDen = 0.5.                                   *)
RandDen == 20
RandMid == 10
RandVals == {0, 10, 11}

---------------------------------------------------------------------------
(* addVintageTVWall: constants                                             *)
roomSize == 3000
wallHeight == 1600
wallDepth == 1500
wallInset == 20

sizes == <<"small", "medium", "large">>

sizeConfigs ==
    [small  |-> [width |-> 160, height |-> 120],
     medium |-> [width |-> 200, height |-> 160],
     large  |-> [width |-> 240, height |-> 180]]

\* rot is in quarter turns (units of Math.PI / 2)
walls ==
    << [name |-> "back",  pos |-> <<0, 0, -wallDepth + wallInset>>, rot |-> 0],
       [name |-> "front", pos |-> <<0, 0, wallDepth - wallInset>>,  rot |-> 2],
       [name |-> "left",  pos |-> <<-wallDepth + wallInset, 0, 0>>, rot |-> 1],
       [name |-> "right", pos |-> <<wallDepth - wallInset, 0, 0>>,  rot |-> -1] >>

\* scale factors times 100
baseDims == [small |-> 100, medium |-> 125, large |-> 150]

Abs(n) == IF n < 0 THEN -n ELSE n

\* the values Math.random() may return while wall w is laid out
Random(w) == IF w = focus THEN RandVals ELSE {RandMid}

\* sizes[Math.floor(Math.random() * sizes.length)]
PickSize(r) == sizes[((r * Len(sizes)) \div RandDen) + 1]

\* (Math.random() - 0.5) * extent
SampleCentered(r, extent) == ((2 * r - RandDen) * extent) \div (2 * RandDen)

\* a height sampled without the half-height margin
SampleUpNoMargin(r, extent, half) == (r * extent) \div RandDen

\* Math.random() * extent + half
SampleUp(r, extent, half) == ((r * extent) \div RandDen) + half

isSideWall(wall) == wall.name = "left" \/ wall.name = "right"

SampleX(wall, config, r) ==
    IF isSideWall(wall)
    THEN SampleUp(r, wallHeight - config.height, config.height \div 2)
    ELSE SampleCentered(r, roomSize - config.width)

SampleY(wall, config, r) ==
    IF isSideWall(wall)
    THEN SampleCentered(r, roomSize - config.width)
    ELSE SampleUp(r, wallHeight - config.height, config.height \div 2)

\* Overlaps with the placed exhibit's own extent left out of the sums
OverlapsOwnExtentOnly(x, y, config, placedTV) ==
    /\ 2 * Abs(x - placedTV.x) < config.width
    /\ 2 * Abs(y - placedTV.y) < config.height

\* overlapX && overlapY of the inner loop, with both sides doubled
Overlaps(x, y, config, placedTV) ==
    /\ 2 * Abs(x - placedTV.x) < config.width + placedTV.width
    /\ 2 * Abs(y - placedTV.y) < config.height + placedTV.height

\* an inner loop that finds every sample taken
canPlaceNever(x, y, config, placed) == FALSE

canPlace(x, y, config, placed) ==
    \A i \in 1..Len(placed) : ~Overlaps(x, y, config, placed[i])

\* every wall treated as the back wall is
WorldPositionFlat(wall, bestX, bestY) ==
    <<wall.pos[1] + bestX, wall.pos[2] + bestY, wall.pos[3]>>

\* tvGroup.position.set(...)
WorldPosition(wall, bestX, bestY) ==
    << wall.pos[1] + (IF isSideWall(wall) THEN 0 ELSE bestX),
       wall.pos[2] + (IF isSideWall(wall) THEN bestX ELSE bestY),
       wall.pos[3] + (IF isSideWall(wall) THEN bestY ELSE 0) >>

\* new VintageTV() with a random design, scaled, positioned and rotated
NewTV(wall, bestX, bestY, designSize) ==
    [size     |-> designSize,
     scale    |-> baseDims[designSize],
     position |-> WorldPosition(wall, bestX, bestY),
     rotation |-> wall.rot,
     wall     |-> wall.name]

---------------------------------------------------------------------------
(* VintageTV objects.  An exhibit is known by its number in the order of   *)
(* construction; the record holds what the object and its video element    *)
(* are: listed (the object is in this.vintageTVs), inBody (the element has *)
(* a parent node), isPlaying, screenMap (screenMaterial.map) and           *)
(* pendingPlays (the play() promises not settled yet).                     *)

\* an attempt that builds its exhibit before it looks at foundPosition
ReachesConstructionAlways(foundPosition) == TRUE

\* if (!foundPosition) continue; const tv = new VintageTV()
ReachesConstruction(foundPosition) == foundPosition

\* new VintageTV(): createVideoElement appends the element to document.body
VintageTV ==
    [listed |-> FALSE, inBody |-> TRUE, isPlaying |-> FALSE,
     screenMap |-> "none", pendingPlays |-> 0]

\* this.vintageTVs.push(tv)
Listed(tv) == [tv EXCEPT !.listed = TRUE]

\* the exhibits after one attempt of the while loop
ExhibitsAfterAttempt(foundPosition) ==
    IF ReachesConstruction(foundPosition)
    THEN Append(exhibits, IF foundPosition THEN Listed(VintageTV) ELSE VintageTV)
    ELSE exhibits

---------------------------------------------------------------------------
(* addVintageTVWall: the walls.forEach callback, one action per step       *)

LayoutInit ==
    /\ focus \in 1..Len(walls)
    /\ lpc = "while"
    /\ wallIdx = 1
    /\ placedTVs = <<>>
    /\ tvIndex = 0
    /\ attempts = 0
    /\ tries = 0
    /\ randomSize = "none"
    /\ vintageTVs = <<>>

\* a footprint recorded in front of the earlier ones
RecordFootprintFirst(placed, footprint) == <<footprint>> \o placed

\* placedTVs.push({ x, y, width, height })
RecordFootprint(placed, footprint) == Append(placed, footprint)

\* a loop that stops on the number of attempts only
WhileConditionAttemptsOnly == attempts < maxAttempts

\* while (tvIndex < maxTVsPerWall && attempts < maxAttempts)
WhileCondition == tvIndex < maxTVsPerWall /\ attempts < maxAttempts

\* the while condition holds: attempts++, draw the size, enter the for loop
BeginAttempt ==
    /\ UNCHANGED <<navVars, sceneVars, appVars>>
    /\ lpc = "while"
    /\ WhileCondition
    /\ \E r \in Random(wallIdx) : randomSize' = PickSize(r)
    /\ attempts' = attempts + 1
    /\ tries' = 0
    /\ lpc' = "tries"
    /\ UNCHANGED <<focus, wallIdx, placedTVs, tvIndex, vintageTVs>>

\* one iteration of the for loop whose sample overlaps a placed exhibit
TryFails ==
    /\ UNCHANGED <<navVars, sceneVars, appVars>>
    /\ lpc = "tries"
    /\ tries < TriesPerAttempt
    /\ \E rx \in Random(wallIdx), ry \in Random(wallIdx) :
         LET wall == walls[wallIdx]
             config == sizeConfigs[randomSize]
         IN  ~canPlace(SampleX(wall, config, rx), SampleY(wall, config, ry),
                       config, placedTVs)
    /\ tries' = tries + 1
    /\ UNCHANGED <<focus, lpc, wallIdx, placedTVs, tvIndex, attempts,
                   randomSize, vintageTVs>>

\* an iteration whose sample can be placed: break, build the exhibit, record it
TryPlaces ==
    /\ UNCHANGED <<navVars, appVars>>
    /\ lpc = "tries"
    /\ tries < TriesPerAttempt
    /\ \E rx \in Random(wallIdx), ry \in Random(wallIdx), rd \in Random(wallIdx) :
         LET wall == walls[wallIdx]
             config == sizeConfigs[randomSize]
             x == SampleX(wall, config, rx)
             y == SampleY(wall, config, ry)
         IN  /\ canPlace(x, y, config, placedTVs)
             /\ vintageTVs' = Append(vintageTVs, NewTV(wall, x, y, PickSize(rd)))
             /\ placedTVs' = RecordFootprint(placedTVs,
                    [x |-> x, y |-> y,
                     width |-> config.width, height |-> config.height])
    /\ tvIndex' = tvIndex + 1
    /\ lpc' = "while"
    /\ exhibits' = ExhibitsAfterAttempt(TRUE)
    /\ UNCHANGED <<focus, wallIdx, attempts, tries, randomSize>>
    /\ UNCHANGED <<outerTimer, innerTimers, playCalls, toggles, sceneDisposed>>

\* the for loop ran out: if (!foundPosition) continue
TriesExhausted ==
    /\ UNCHANGED <<navVars, appVars>>
    /\ lpc = "tries"
    /\ tries >= TriesPerAttempt
    /\ lpc' = "while"
    /\ exhibits' = ExhibitsAfterAttempt(FALSE)
    /\ UNCHANGED <<focus, wallIdx, placedTVs, tvIndex, attempts, tries,
                   randomSize, vintageTVs>>
    /\ UNCHANGED <<outerTimer, innerTimers, playCalls, toggles, sceneDisposed>>

\* the while condition fails: the callback returns, forEach moves on
NextWall ==
    /\ UNCHANGED <<navVars, sceneVars, appVars>>
    /\ lpc = "while"
    /\ ~WhileCondition
    /\ wallIdx < Len(walls)
    /\ wallIdx' = wallIdx + 1
    /\ placedTVs' = <<>>
    /\ tvIndex' = 0
    /\ attempts' = 0
    /\ tries' = 0
    /\ randomSize' = "none"
    /\ UNCHANGED <<focus, lpc, vintageTVs>>

\* the last wall is done: setTimeout(..., 2000) and addVintageTVWall returns
LayoutDone ==
    /\ UNCHANGED <<navVars, appVars>>
    /\ lpc = "while"
    /\ ~WhileCondition
    /\ wallIdx = Len(walls)
    /\ lpc' = "done"
    /\ outerTimer' = "pending"
    /\ UNCHANGED <<focus, wallIdx, placedTVs, tvIndex, attempts, tries,
                   randomSize, vintageTVs>>
    /\ UNCHANGED <<exhibits, innerTimers, playCalls, toggles, sceneDisposed>>

LayoutNext ==
    \/ BeginAttempt
    \/ TryFails
    \/ TryPlaces
    \/ TriesExhausted
    \/ NextWall
    \/ LayoutDone

---------------------------------------------------------------------------
(* FPSCameraControls.  Lengths and speeds are in units of 1e-5, angles in  *)
(* 1e-5 rad, unit vectors have length DirOne.  Quotients are truncated     *)
(* towards zero.                                                           *)

\* bounds of the model
MaxTicks == 2
MaxYaw == 160000
MaxTurns == 2
DownCap == 629
RestCap == 41
CoastTicks == 52
PressTicks == 1

\* program constants in fixed point
lookSensitivity == 1000
moveSpeed == 1000
friction == 95
maxVelocity == 8000
PiHalf == 157080
Pi == 314159
TwoPi == 628319
DirOne == 10000
FrictionDen == 100
\* isMoving(): velocity.length() > 0.01
movingThreshold == 1000

MovementKeys == {"KeyW", "KeyA", "KeyS", "KeyD", "Space", "ShiftLeft"}
BoundFields == {"minX", "maxX", "minZ", "maxZ", "minY", "maxY"}
AllHandlers == {"keydown", "keyup", "click", "pointerlockchange",
                "pointerlockerror", "contextmenu", "mousemove"}

Min(a, b) == IF a < b THEN a ELSE b
Max(a, b) == IF a > b THEN a ELSE b
TruncDiv(a, b) == IF a >= 0 THEN a \div b ELSE -((-a) \div b)

\* sin of an angle in [0, PiHalf], by its Taylor series; result times DirOne
SinQuadrant(a) ==
    LET x  == a \div 10
        x2 == (x * x) \div DirOne
        t3 == (x * x2) \div (DirOne * 6)
        t5 == (t3 * x2) \div (DirOne * 20)
        t7 == (t5 * x2) \div (DirOne * 42)
        t9 == (t7 * x2) \div (DirOne * 72)
    IN  Min(DirOne, x - t3 + t5 - t7 + t9)

Sin(a) ==
    LET r == a % TwoPi
    IN  IF r <= PiHalf THEN SinQuadrant(r)
        ELSE IF r <= Pi THEN SinQuadrant(Pi - r)
        ELSE IF r <= Pi + PiHalf THEN -SinQuadrant(r - Pi)
        ELSE -SinQuadrant(TwoPi - r)

Cos(a) == Sin(a + PiHalf)

VecAdd(u, v) == <<u[1] + v[1], u[2] + v[2], u[3] + v[3]>>
VecSub(u, v) == <<u[1] - v[1], u[2] - v[2], u[3] - v[3]>>
LengthSq(v) == v[1] * v[1] + v[2] * v[2] + v[3] * v[3]

RECURSIVE SqrtSearch(_, _, _)
SqrtSearch(n, lo, hi) ==
    IF lo >= hi THEN lo
    ELSE LET mid == (lo + hi) \div 2
         IN  IF mid * mid >= n THEN SqrtSearch(n, lo, mid)
             ELSE SqrtSearch(n, mid + 1, hi)

\* Vector3.length(), rounded up
Length(v) == SqrtSearch(LengthSq(v), 0, 40000)

Zero3 == <<0, 0, 0>>

\* the size to which a rounding residue is stretched before its length
\* is taken
NoiseCap == 30000

\* forward.y = 0; forward.normalize() on a rounding residue (nx, nz), in
\* units of the last place: the unit vector along it; a zero vector is
\* left zero, normalize() dividing by length() || 1
NormalizeXZ(noise) ==
    LET m == Max(Abs(noise[1]), Abs(noise[2]))
        k == IF m = 0 THEN 1 ELSE Max(1, NoiseCap \div m)
        s == <<noise[1] * k, 0, noise[2] * k>>
        len == SqrtSearch(LengthSq(s), 0, 46340)
    IN  IF len = 0 THEN Zero3
        ELSE <<TruncDiv(s[1] * DirOne, len), 0, TruncDiv(s[3] * DirOne, len)>>

\* the camera looks straight up or down: onMouseMove has clamped the pitch
\* to Math.PI / 2 or to -Math.PI / 2
PitchClamped(rot) == Abs(rot[1]) = PiHalf

\* forward = (0, 0, -1) turned by the camera's quaternion, y zeroed,
\* normalized.  Below the clamp the rotation about Y is what is left.  At
\* the clamp the turned vector is vertical, its x and z are the rounding
\* residue of the quaternion product, and normalize() stretches that
\* residue to a unit vector whose direction is not the yaw's, or leaves
\* it zero
Forward(rot, noise) ==
    IF PitchClamped(rot) THEN NormalizeXZ(noise)
    ELSE <<-Sin(rot[2]), 0, -Cos(rot[2])>>

\* right = (1, 0, 0) turned, y zeroed, normalized: its x and z do not
\* depend on the pitch
Right(rot) == <<Cos(rot[2]), 0, -Sin(rot[2])>>

\* this.acceleration after the key tests, before multiplyScalar
Intent(k, rot, noise) ==
    LET a1 == IF "KeyW" \in k THEN VecAdd(Zero3, Forward(rot, noise))
              ELSE Zero3
        a2 == IF "KeyS" \in k THEN VecSub(a1, Forward(rot, noise)) ELSE a1
        a3 == IF "KeyA" \in k THEN VecSub(a2, Right(rot)) ELSE a2
        a4 == IF "KeyD" \in k THEN VecAdd(a3, Right(rot)) ELSE a3
        a5 == IF "Space" \in k THEN VecAdd(a4, <<0, DirOne, 0>>) ELSE a4
        a6 == IF "ShiftLeft" \in k THEN VecSub(a5, <<0, DirOne, 0>>) ELSE a5
    IN  a6

\* this.acceleration.multiplyScalar(this.moveSpeed)
Accelerate(k, rot, noise) ==
    LET a == Intent(k, rot, noise)
    IN  << TruncDiv(a[1] * moveSpeed, DirOne),
           TruncDiv(a[2] * moveSpeed, DirOne),
           TruncDiv(a[3] * moveSpeed, DirOne) >>

\* a frame that does not limit the speed
LimitSpeedNever(v) == v

\* if (velocity.length() > maxVelocity) velocity.normalize().multiplyScalar(..)
LimitSpeed(v) ==
    IF LengthSq(v) > maxVelocity * maxVelocity
    THEN LET len == Length(v)
         IN  << TruncDiv(v[1] * maxVelocity, len),
                TruncDiv(v[2] * maxVelocity, len),
                TruncDiv(v[3] * maxVelocity, len) >>
    ELSE v

\* a frame that applies no friction
ApplyFrictionNone(v) == v

\* velocity.multiplyScalar(this.friction)
ApplyFriction(v) ==
    << TruncDiv(v[1] * friction, FrictionDen),
       TruncDiv(v[2] * friction, FrictionDen),
       TruncDiv(v[3] * friction, FrictionDen) >>

NewVelocity(v, a) == ApplyFriction(LimitSpeed(VecAdd(v, a)))

\* ClampAxis without the lower bound
ClampAxisUpperOnly(lo, hi, x) == Min(hi, x)

\* Math.max(lo, Math.min(hi, x))
ClampAxis(lo, hi, x) == Max(lo, Min(hi, x))

\* a clamp on one axis that also keeps the other axes where they were
NewPositionHaltsOnClamp(p, v, b) ==
    LET t == VecAdd(p, v)
        c == << ClampAxis(b.minX, b.maxX, t[1]),
                ClampAxis(b.minY, b.maxY, t[2]),
                ClampAxis(b.minZ, b.maxZ, t[3]) >>
    IN  IF c = t THEN t
        ELSE << IF c[1] = t[1] THEN p[1] ELSE c[1],
                IF c[2] = t[2] THEN p[2] ELSE c[2],
                IF c[3] = t[3] THEN p[3] ELSE c[3] >>

\* newPosition after the bounds checking
NewPosition(p, v, b) ==
    << ClampAxis(b.minX, b.maxX, p[1] + v[1]),
       ClampAxis(b.minY, b.maxY, p[2] + v[2]),
       ClampAxis(b.minZ, b.maxZ, p[3] + v[3]) >>

\* ClampPitch without the lower limit
ClampPitchUpperOnly(p) == Min(PiHalf, p)

\* Math.max(-Math.PI / 2, Math.min(Math.PI / 2, pitch))
ClampPitch(p) == Max(-PiHalf, Min(PiHalf, p))

\* the yaw turned the wrong way round
NewYawAdds(y, dx) == y + dx * lookSensitivity

\* this.yaw -= movementX * sensitivity
NewYaw(y, dx) == y - dx * lookSensitivity

\* a setBounds that forgets the fields it is not given
MergeBoundsReplacesAll(old, new) ==
    [f \in BoundFields |-> IF f \in DOMAIN new THEN new[f] ELSE 0]

\* { ...this.bounds, ...bounds } for a partial record
MergeBounds(old, new) ==
    [f \in BoundFields |-> IF f \in DOMAIN new THEN new[f] ELSE old[f]]

\* update() without its early return
UpdateRunsAlways == TRUE

\* update(): if (!this.isPointerLocked) return
UpdateRuns == isPointerLocked

\* onPointerLockChange testing only that some element holds the lock
LockIsAny(element) == element # "none"

\* onPointerLockChange: document.pointerLockElement === this.domElement
LockIsOwn(element) == element = "own"

\* dispose() forgetting the mousemove listener added on capture
DisposeRemovesConstructorOnly == AllHandlers \ {"mousemove"}

\* the listeners dispose() removes
DisposeRemoves == AllHandlers

\* dispose() leaving pointer lock whatever the capture state
DisposeExitsAlways == TRUE

\* dispose(): if (this.isPointerLocked) document.exitPointerLock()
DisposeExits == isPointerLocked

Op(name, arg, call) == [name |-> name, arg |-> arg, call |-> call]

defaultBounds ==
    [f \in BoundFields |->
        CASE f = "minX" -> -700000 [] f = "maxX" -> 700000
          [] f = "minZ" -> -700000 [] f = "maxZ" -> 700000
          [] f = "minY" -> 100000  [] f = "maxY" -> 800000]

NavInit ==
    /\ isPointerLocked = FALSE
    /\ keys = {}
    /\ pitch = 0
    /\ yaw = 0
    /\ velocity = Zero3
    /\ acceleration = Zero3
    /\ bounds = defaultBounds
    /\ position = <<0, 200000, 0>>
    /\ cameraRotation = <<0, 0>>
    /\ listeners = AllHandlers \ {"mousemove"}
    /\ pointerLockElement = "none"
    /\ lockPending = FALSE
    /\ exitPending = FALSE
    /\ disposed = FALSE
    /\ ticks = 0
    /\ downRun = 0
    /\ turns = <<>>
    /\ restRun = 0
    /\ idleRun = 0
    /\ op = Op("constructor", <<>>, "none")

\* the handler of pointerlockchange, run after the host set element
OnPointerLockChange(element) ==
    /\ isPointerLocked' = LockIsOwn(element)
    /\ listeners' = IF LockIsOwn(element)
                    THEN listeners \cup {"mousemove"}
                    ELSE listeners \ {"mousemove"}

\* the host changes document.pointerLockElement and fires pointerlockchange
FireLockChange(element) ==
    /\ pointerLockElement' = element
    /\ IF "pointerlockchange" \in listeners
       THEN OnPointerLockChange(element)
       ELSE UNCHANGED <<isPointerLocked, listeners>>

\* a click on the canvas: onClick
Click ==
    /\ UNCHANGED <<layoutVars, sceneVars, appVars>>
    /\ IF "click" \in listeners /\ ~isPointerLocked
       THEN /\ lockPending' = TRUE
            /\ op' = Op("click", <<>>, "requestPointerLock")
       ELSE /\ UNCHANGED lockPending
            /\ op' = Op("click", <<>>, "none")
    /\ UNCHANGED <<isPointerLocked, keys, pitch, yaw, velocity, acceleration,
                   bounds, position, cameraRotation, listeners,
                   pointerLockElement, exitPending, disposed, ticks, downRun, turns,
                   restRun, idleRun>>

\* the host grants the pending request
HostGrant ==
    /\ UNCHANGED <<layoutVars, sceneVars, appVars>>
    /\ lockPending
    /\ lockPending' = FALSE
    /\ FireLockChange("own")
    /\ op' = Op("pointerlockchange", "own", "none")
    /\ UNCHANGED <<keys, pitch, yaw, velocity, acceleration, bounds, position,
                   cameraRotation, exitPending, disposed, ticks, downRun, turns,
                   restRun, idleRun>>

\* the host rejects the pending request: onPointerLockError only logs
HostReject ==
    /\ UNCHANGED <<layoutVars, sceneVars, appVars>>
    /\ lockPending
    /\ lockPending' = FALSE
    /\ op' = Op("pointerlockerror", <<>>, "none")
    /\ UNCHANGED <<isPointerLocked, keys, pitch, yaw, velocity, acceleration,
                   bounds, position, cameraRotation, listeners,
                   pointerLockElement, exitPending, disposed, ticks, downRun, turns,
                   restRun, idleRun>>

\* the user leaves pointer lock (Escape), or the host takes it away
HostRevoke ==
    /\ UNCHANGED <<layoutVars, sceneVars, appVars>>
    /\ pointerLockElement # "none"
    /\ FireLockChange("none")
    /\ exitPending' = FALSE
    /\ op' = Op("pointerlockchange", "none", "none")
    /\ UNCHANGED <<keys, pitch, yaw, velocity, acceleration, bounds, position,
                   cameraRotation, lockPending, disposed, ticks, downRun, turns,
                   restRun, idleRun>>

\* another element of the page gets the pointer lock
HostOtherLock ==
    /\ UNCHANGED <<layoutVars, sceneVars, appVars>>
    /\ pointerLockElement # "other"
    /\ ~disposed
    /\ FireLockChange("other")
    /\ op' = Op("pointerlockchange", "other", "none")
    /\ UNCHANGED <<keys, pitch, yaw, velocity, acceleration, bounds, position,
                   cameraRotation, lockPending, exitPending, disposed, ticks,
                   downRun, turns, restRun, idleRun>>

\* keydown: onKeyDown
KeyDown(code) ==
    /\ UNCHANGED <<layoutVars, sceneVars, appVars>>
    /\ keys' = IF "keydown" \in listeners THEN keys \cup {code} ELSE keys
    /\ op' = Op("keydown", code, "none")
    /\ UNCHANGED <<isPointerLocked, pitch, yaw, velocity, acceleration, bounds,
                   position, cameraRotation, listeners, pointerLockElement,
                   lockPending, exitPending, disposed, ticks, downRun, turns,
                   restRun, idleRun>>

\* keyup: onKeyUp
KeyUp(code) ==
    /\ UNCHANGED <<layoutVars, sceneVars, appVars>>
    /\ keys' = IF "keyup" \in listeners THEN keys \ {code} ELSE keys
    /\ op' = Op("keyup", code, "none")
    /\ UNCHANGED <<isPointerLocked, pitch, yaw, velocity, acceleration, bounds,
                   position, cameraRotation, listeners, pointerLockElement,
                   lockPending, exitPending, disposed, ticks, downRun, turns,
                   restRun, idleRun>>

(* At the clamp the x and z of forward.applyQuaternion(camera.quaternion)  *)
(* are what the roundings of the quaternion of the YXZ rotation and of its *)
(* product with (0, 0, -1) leave.  They are a function of this.yaw as a    *)
(* double, the same for both signs of the pitch, and are tabled here as    *)
(* whole numbers in lowest terms, computed in IEEE doubles with the        *)
(* Quaternion.setFromEuler and Vector3.applyQuaternion of the current      *)
(* three.js.  An entry holds two residues where the sin and cos of fdlibm  *)
(* and of glibc, either of which a JavaScript engine may have built in,    *)
(* differ in the last place.                                               *)

\* the residue after one pointer event of movementX = n from yaw 0, for
\* n = 1 .. 314; movementX = -n mirrors x
SingleTurnResidue ==
    <<
       {<<151, -20000>>}, {<<128, -12695>>}, {<<128, -11793>>},
       {<<128, -4319>>}, {<<4, 7>>}, {<<96, -1423>>}, {<<32, -115>>},
       {<<16, -577>>}, {<<2, -15>>}, {<<32, -575>>}, {<<6, -5>>},
       {<<48, -131>>}, {<<32, 29>>}, {<<8, -143>>}, {<<16, -89>>},
       {<<6, 7>>}, {<<16, -481>>}, {<<16, -21>>}, {<<8, -17>>},
       {<<1, -8>>, <<3, -8>>}, {<<24, -89>>}, {<<4, -25>>}, {<<3, -10>>},
       {<<16, -111>>}, {<<24, -173>>}, {<<16, -17>>}, {<<16, -77>>},
       {<<4, -43>>}, {<<8, -31>>}, {<<16, -101>>}, {<<8, -1>>},
       {<<8, -51>>}, {<<1, -3>>}, {<<8, -9>>}, {<<8, -27>>}, {<<4, -1>>},
       {<<1, -9>>}, {<<1, -2>>}, {<<1, -3>>}, {<<8, -13>>}, {<<12, -5>>},
       {<<6, -13>>}, {<<12, -65>>}, {<<12, -11>>}, {<<3, -2>>},
       {<<12, -11>>}, {<<2, -1>>}, {<<4, -1>>}, {<<4, -3>>}, {<<4, -9>>},
       {<<6, -11>>}, {<<1, -1>>}, {<<0, -1>>}, {<<2, 1>>}, {<<8, -1>>},
       {<<8, -23>>}, {<<8, -11>>}, {<<2, -1>>}, {<<4, -9>>}, {<<4, -11>>},
       {<<2, -5>>}, {<<4, -17>>}, {<<8, -19>>}, {<<4, -11>>}, {<<4, -3>>},
       {<<2, -3>>}, {<<1, -2>>}, {<<8, -19>>}, {<<8, 1>>}, {<<6, -7>>},
       {<<8, -13>>}, {<<8, -21>>}, {<<4, -5>>}, {<<4, -5>>}, {<<2, -5>>},
       {<<2, -5>>}, {<<4, -5>>}, {<<2, -5>>}, {<<2, -3>>}, {<<6, -5>>},
       {<<2, -1>>}, {<<2, -1>>}, {<<6, -1>>}, {<<2, -3>>}, {<<1, 1>>},
       {<<2, -3>>}, {<<4, 1>>}, {<<2, -1>>}, {<<6, -7>>}, {<<1, -1>>},
       {<<4, -7>>}, {<<2, -5>>, <<3, -1>>}, {<<0, -1>>}, {<<1, -1>>},
       {<<1, -1>>}, {<<2, -1>>}, {<<2, -3>>}, {<<2, -3>>}, {<<6, -7>>},
       {<<6, -7>>}, {<<6, -5>>}, {<<2, 1>>, <<6, -1>>}, {<<3, -1>>},
       {<<1, -2>>}, {<<2, -5>>}, {<<1, -1>>}, {<<1, 0>>}, {<<3, 2>>},
       {<<1, -2>>}, {<<1, -2>>}, {<<3, -2>>}, {<<1, -2>>},
       {<<2, -1>>, <<3, -7>>}, {<<3, -2>>}, {<<1, 0>>}, {<<3, 1>>},
       {<<4, 1>>}, {<<1, 2>>}, {<<1, 1>>}, {<<1, 0>>}, {<<4, 1>>},
       {<<3, -1>>}, {<<1, 0>>}, {<<1, 1>>}, {<<3, 1>>}, {<<1, 0>>},
       {<<1, 0>>}, {<<1, 1>>}, {<<1, 3>>}, {<<1, 0>>}, {<<1, 0>>},
       {<<4, -1>>}, {<<1, 0>>}, {<<1, 0>>}, {<<1, 0>>}, {<<3, -1>>},
       {<<3, -1>>}, {<<3, -2>>}, {<<3, -4>>}, {<<1, -1>>}, {<<3, -1>>},
       {<<3, -2>>}, {<<3, -2>>}, {<<1, 0>>}, {<<1, 1>>}, {<<3, 4>>},
       {<<3, -1>>}, {<<2, -1>>}, {<<1, 0>>}, {<<3, -4>>}, {<<1, 0>>},
       {<<2, 1>>}, {<<1, 4>>}, {<<1, -1>>, <<1, 0>>}, {<<4, -1>>},
       {<<1, -1>>}, {<<1, 3>>}, {<<1, 0>>}, {<<1, 0>>, <<3, -2>>},
       {<<2, -1>>}, {<<3, 2>>}, {<<3, 2>>}, {<<1, 0>>}, {<<1, -4>>},
       {<<3, 2>>}, {<<3, -2>>}, {<<2, -1>>}, {<<1, -2>>}, {<<1, 0>>},
       {<<3, 4>>}, {<<1, -2>>, <<1, 0>>}, {<<3, 2>>}, {<<1, 0>>},
       {<<1, 0>>}, {<<1, 0>>, <<3, 4>>}, {<<2, 1>>}, {<<3, 2>>},
       {<<3, 2>>}, {<<1, 0>>}, {<<1, 0>>}, {<<2, 1>>}, {<<1, 1>>},
       {<<1, 0>>}, {<<1, 0>>}, {<<1, 2>>}, {<<1, 0>>}, {<<2, 1>>},
       {<<2, 1>>}, {<<1, 0>>}, {<<1, 0>>}, {<<3, 2>>}, {<<1, 0>>},
       {<<1, 0>>}, {<<2, 1>>}, {<<1, 1>>}, {<<1, 0>>}, {<<1, 0>>},
       {<<3, -4>>}, {<<1, 0>>}, {<<3, 4>>}, {<<1, 0>>}, {<<3, 2>>},
       {<<1, 2>>}, {<<1, 0>>}, {<<3, 4>>}, {<<1, 0>>}, {<<3, 2>>},
       {<<1, 0>>}, {<<3, 2>>}, {<<3, 4>>}, {<<1, 1>>}, {<<1, 0>>},
       {<<1, 0>>}, {<<1, 3>>}, {<<1, 1>>}, {<<3, 2>>}, {<<1, 0>>},
       {<<1, -1>>}, {<<1, -1>>}, {<<3, 4>>}, {<<1, -1>>}, {<<3, -2>>},
       {<<1, 1>>}, {<<1, 2>>}, {<<1, 0>>}, {<<3, 4>>},
       {<<1, 1>>, <<3, 4>>}, {<<3, 2>>}, {<<1, 0>>}, {<<3, 2>>},
       {<<1, 2>>}, {<<1, 0>>}, {<<3, 4>>}, {<<1, 2>>}, {<<1, 2>>},
       {<<1, 0>>}, {<<1, 0>>}, {<<1, 0>>}, {<<1, 0>>}, {<<1, -1>>},
       {<<3, 4>>}, {<<1, -1>>}, {<<1, -2>>}, {<<1, 0>>},
       {<<1, -1>>, <<1, 2>>}, {<<1, 1>>}, {<<1, -1>>}, {<<1, 0>>},
       {<<1, 0>>}, {<<1, 0>>}, {<<1, -2>>}, {<<1, 2>>}, {<<1, 1>>},
       {<<1, 1>>}, {<<1, 0>>}, {<<1, -1>>}, {<<1, 1>>}, {<<1, 2>>},
       {<<1, -2>>}, {<<1, 1>>}, {<<1, 0>>}, {<<1, -2>>}, {<<1, 0>>},
       {<<3, 4>>}, {<<1, 4>>}, {<<1, 0>>}, {<<3, 8>>}, {<<3, 8>>},
       {<<3, 4>>}, {<<1, 0>>}, {<<1, 0>>}, {<<3, 8>>},
       {<<1, 4>>, <<3, 4>>}, {<<3, 4>>}, {<<1, 2>>}, {<<1, 8>>},
       {<<1, -2>>}, {<<1, 8>>}, {<<3, 4>>}, {<<3, 4>>}, {<<1, 4>>},
       {<<1, 4>>}, {<<1, 0>>}, {<<1, 4>>}, {<<1, 6>>}, {<<1, 0>>},
       {<<1, 2>>}, {<<1, 8>>}, {<<1, 8>>}, {<<3, 16>>}, {<<3, 8>>},
       {<<1, 0>>}, {<<1, 8>>}, {<<1, 8>>}, {<<1, 4>>}, {<<1, 8>>},
       {<<1, 4>>}, {<<1, 16>>}, {<<1, 16>>}, {<<1, 0>>}, {<<1, 0>>},
       {<<3, 32>>}, {<<3, 16>>}, {<<1, 0>>}, {<<1, 8>>}, {<<1, 0>>},
       {<<1, 32>>}, {<<3, 64>>}, {<<3, 32>>}, {<<1, 16>>}, {<<1, 0>>},
       {<<1, 0>>}, {<<3, 256>>}, {<<3, 1024>>}
    >>

TurnPathResidue ==
    {
       << <<35, 35>>, {<<6, -7>>} >>, << <<35, -120>>, {<<0, 0>>} >>,
       << <<-120, 35>>, {<<0, 0>>} >>, << <<35, 35, 35>>, {<<2, -5>>} >>,
       << <<35, 35, -120>>, {<<-6, 1>>} >>,
       << <<35, -120, 35>>, {<<-12, -1>>} >>,
       << <<-120, 35, 35>>, {<<-12, -1>>} >>,
       << <<35, 35, 35, 35>>, {<<1, -1>>} >>,
       << <<35, 35, 35, -120>>, {<<-1, -3>>} >>,
       << <<35, 35, -120, 35>>, {<<-16, -101>>} >>,
       << <<35, -120, 35, 35>>, {<<-8, -53>>} >>,
       << <<-120, 35, 35, 35>>, {<<-8, -53>>} >>
    }

\* the yaws of the tables: up to TableTurn pointer units either way
TableTurn == Len(SingleTurnResidue)

\* the residues of the turned forward vector at the yaw that the pointer
\* events path have added up to in doubles: no event, one event of the
\* first table, or a path of the second.  Two events do not leave the
\* double that one event of their sum leaves, so for any other path no
\* frame at the clamp is modelled
Residues(path) ==
    LET found == {e \in TurnPathResidue : e[1] = path}
    IN  IF path = <<>> THEN {<<0, -1>>}
        ELSE IF Len(path) = 1 /\ Abs(path[1]) <= TableTurn
        THEN IF path[1] > 0 THEN SingleTurnResidue[path[1]]
             ELSE {<<-r[1], r[2]>> : r \in SingleTurnResidue[-path[1]]}
        ELSE UNION {e[2] : e \in found}

\* the residue matters at the clamp only
NoiseInputs(rot, path) ==
    IF PitchClamped(rot) THEN Residues(path) ELSE {<<0, 0>>}

\* mousemove on the canvas with movementX = dx, movementY = dy: onMouseMove
MouseMove(dx, dy) ==
    /\ UNCHANGED <<layoutVars, sceneVars, appVars>>
    /\ op' = Op("mousemove", <<dx, dy>>, "none")
    /\ IF "mousemove" \in listeners /\ isPointerLocked
       THEN /\ Abs(NewYaw(yaw, dx))
                 <= Min(MaxYaw, TableTurn * lookSensitivity)
            /\ dx # 0 => Len(turns) < MaxTurns
            /\ yaw' = NewYaw(yaw, dx)
            /\ turns' = IF dx # 0 THEN Append(turns, dx) ELSE turns
            /\ pitch' = ClampPitch(pitch - dy * lookSensitivity)
            /\ cameraRotation' = <<pitch', yaw'>>
            /\ downRun' = IF dy > 0 THEN Min(DownCap, downRun + dy)
                          ELSE IF dy < 0 THEN 0 ELSE downRun
       ELSE UNCHANGED <<yaw, pitch, cameraRotation, downRun, turns>>
    /\ UNCHANGED <<isPointerLocked, keys, velocity, acceleration, bounds,
                   position, listeners, pointerLockElement, lockPending,
                   exitPending, disposed, ticks, restRun, idleRun>>

\* update(), the turned forward vector carrying the residue noise
ControlsUpdate(noise) ==
    /\ ticks' = ticks + 1
    /\ op' = Op("update", <<>>, "none")
    /\ idleRun' = IF keys = {} THEN Min(RestCap, idleRun + 1) ELSE 0
    /\ IF UpdateRuns
       THEN /\ acceleration' = Accelerate(keys, cameraRotation, noise)
            /\ velocity' = NewVelocity(velocity, acceleration')
            /\ position' = NewPosition(position, velocity', bounds)
            /\ restRun' = IF keys = {} THEN Min(RestCap, restRun + 1) ELSE 0
       ELSE UNCHANGED <<acceleration, velocity, position, restRun>>
    /\ UNCHANGED <<isPointerLocked, keys, pitch, yaw, bounds, cameraRotation,
                   listeners, pointerLockElement, lockPending, exitPending,
                   disposed, downRun, turns>>

\* update() called by a host that is not the App
Tick ==
    /\ UNCHANGED <<layoutVars, sceneVars, appVars>>
    /\ \E noise \in NoiseInputs(cameraRotation, turns) : ControlsUpdate(noise)

\* the frames of a short session
Update == ticks < MaxTicks /\ Tick

\* the frames of a long session
CoastUpdate == ticks < CoastTicks /\ Tick

\* in a long session the key presses, the clicks and the grants of the lock
\* all come before frame PressTicks
CoastKeyDown(code) == ticks < PressTicks /\ KeyDown(code)

CoastClick == ticks < PressTicks /\ Click

CoastGrant == ticks < PressTicks /\ HostGrant

\* a key the user presses only while the pointer is free
ReleasedKeyDown(code) == ~isPointerLocked /\ KeyDown(code)

\* setBounds(b) for a partial record b
SetBounds(b) ==
    /\ UNCHANGED <<layoutVars, sceneVars, appVars>>
    /\ bounds' = MergeBounds(bounds, b)
    /\ op' = Op("setBounds", b, "none")
    /\ UNCHANGED <<isPointerLocked, keys, pitch, yaw, velocity, acceleration,
                   position, cameraRotation, listeners, pointerLockElement,
                   lockPending, exitPending, disposed, ticks, downRun, turns,
                   restRun, idleRun>>

\* FPSCameraControls.dispose()
ControlsDispose ==
    /\ ~disposed
    /\ disposed' = TRUE
    /\ listeners' = listeners \ DisposeRemoves
    /\ IF DisposeExits
       THEN /\ exitPending' = TRUE
            /\ op' = Op("dispose", <<>>, "exitPointerLock")
       ELSE /\ UNCHANGED exitPending
            /\ op' = Op("dispose", <<>>, "none")
    /\ UNCHANGED <<isPointerLocked, keys, pitch, yaw, velocity, acceleration,
                   bounds, position, cameraRotation, pointerLockElement,
                   lockPending, ticks, downRun, turns, restRun, idleRun>>

\* dispose() called by a host that is not the App
Dispose ==
    /\ UNCHANGED <<layoutVars, sceneVars, appVars>>
    /\ ControlsDispose

\* the host carries out exitPointerLock()
HostExit ==
    /\ UNCHANGED <<layoutVars, sceneVars, appVars>>
    /\ exitPending
    /\ exitPending' = FALSE
    /\ IF pointerLockElement # "none"
       THEN FireLockChange("none")
       ELSE UNCHANGED <<pointerLockElement, isPointerLocked, listeners>>
    /\ op' = Op("pointerlockchange", "none", "none")
    /\ UNCHANGED <<keys, pitch, yaw, velocity, acceleration, bounds, position,
                   cameraRotation, lockPending, disposed, ticks, downRun, turns,
                   restRun, idleRun>>

---------------------------------------------------------------------------
(* VintageTV playback and the staggered start.  Times are in milliseconds  *)
(* after the return of addVintageTVWall.                                   *)

\* bound of the model: the number of App.toggleVideo() calls
MaxToggles == 2

outerDelay == 2000
staggerStep == 200

\* playVideo(): if (!this.isPlaying) this.videoElement.play()
playVideo(tv) ==
    IF ~tv.isPlaying THEN [tv EXCEPT !.pendingPlays = @ + 1] ELSE tv

\* a rejection that shows the video texture all the same
playRejectedSwitchesScreen(tv) ==
    [tv EXCEPT !.pendingPlays = 0, !.screenMap = "videoTexture"]

\* the catch callback of playVideo(): it logs
playRejected(tv) == [tv EXCEPT !.pendingPlays = 0]

\* the then callback of playVideo()
playFulfilled(tv) ==
    [tv EXCEPT !.pendingPlays = 0, !.isPlaying = TRUE,
               !.screenMap = "videoTexture"]

\* pauseVideo(): pause() also rejects the promises of the element
pauseVideo(tv) ==
    IF tv.isPlaying
    THEN [tv EXCEPT !.isPlaying = FALSE, !.pendingPlays = 0]
    ELSE tv

\* stopVideo()
stopVideo(tv) ==
    [tv EXCEPT !.isPlaying = FALSE, !.pendingPlays = 0, !.screenMap = "none"]

\* toggleVideo()
toggleVideo(tv) == IF tv.isPlaying THEN pauseVideo(tv) ELSE playVideo(tv)

\* VintageTV.dispose(): stopVideo(), then the element leaves its parent
tvDispose(tv) == [stopVideo(tv) EXCEPT !.inBody = FALSE]

\* this.vintageTVs as exhibit numbers, in the order of the pushes
SceneTVs ==
    LET listed == {i \in 1..Len(exhibits) : exhibits[i].listed}
    IN  [k \in 1..Cardinality(listed) |->
            CHOOSE i \in listed : Cardinality({j \in listed : j < i}) = k - 1]

\* inner delays that shrink with the index
staggerDelayDescending(index) == outerDelay - index * staggerStep

\* the delay of the inner timer: index * 200
staggerDelay(index) == index * staggerStep

\* the host runs timer t no later than timer u: by due time, then by the
\* order of the setTimeout calls
RunsBefore(t, u) == t.due < u.due \/ (t.due = u.due /\ t.seq <= u.seq)

\* the 2000 ms timer fires: one inner timer per exhibit of the list
OuterTimerFires ==
    /\ outerTimer = "pending"
    /\ outerTimer' = "fired"
    /\ innerTimers' =
         { [tv |-> SceneTVs[k], due |-> outerDelay + staggerDelay(k - 1),
            seq |-> k] : k \in 1..Len(SceneTVs) }
    /\ op' = Op("setTimeout", <<>>, "none")
    /\ UNCHANGED <<exhibits, playCalls, toggles, sceneDisposed>>
    /\ UNCHANGED <<layoutVars, navState, appVars>>

\* the next inner timer fires: tv.playVideo()
InnerTimerFires ==
    /\ \E t \in innerTimers :
         /\ \A u \in innerTimers : RunsBefore(t, u)
         /\ innerTimers' = innerTimers \ {t}
         /\ exhibits' = [exhibits EXCEPT ![t.tv] = playVideo(@)]
         /\ playCalls' = Append(playCalls, [tv |-> t.tv, at |-> t.due])
         /\ op' = Op("playVideo", t.tv, "timer")
    /\ UNCHANGED <<outerTimer, toggles, sceneDisposed>>
    /\ UNCHANGED <<layoutVars, navState, appVars>>

\* the host starts playback of exhibit i: the promises of play() fulfil
PlayResolves(i) ==
    /\ i \in 1..Len(exhibits)
    /\ exhibits[i].pendingPlays > 0
    /\ exhibits' = [exhibits EXCEPT ![i] = playFulfilled(@)]
    /\ op' = Op("playFulfilled", i, "none")
    /\ UNCHANGED <<outerTimer, innerTimers, playCalls, toggles, sceneDisposed>>
    /\ UNCHANGED <<layoutVars, navState, appVars>>

\* the host cannot start playback of exhibit i: the promises reject
PlayRejects(i) ==
    /\ i \in 1..Len(exhibits)
    /\ exhibits[i].pendingPlays > 0
    /\ exhibits' = [exhibits EXCEPT ![i] = playRejected(@)]
    /\ op' = Op("playRejected", i, "none")
    /\ UNCHANGED <<outerTimer, innerTimers, playCalls, toggles, sceneDisposed>>
    /\ UNCHANGED <<layoutVars, navState, appVars>>

\* App.toggleVideo(): tv.toggleVideo() on every exhibit of the list
ToggleVideo ==
    /\ lpc = "done"
    /\ toggles < MaxToggles
    /\ toggles' = toggles + 1
    /\ exhibits' = [i \in 1..Len(exhibits) |->
                      IF exhibits[i].listed THEN toggleVideo(exhibits[i])
                      ELSE exhibits[i]]
    /\ op' = Op("toggleVideo", <<>>, "none")
    /\ UNCHANGED <<outerTimer, innerTimers, playCalls, sceneDisposed>>
    /\ UNCHANGED <<layoutVars, navState, appVars>>

\* ExhibitionScene.dispose(): tv.dispose() on every exhibit of the list,
\* then this.vintageTVs.length = 0
SceneDisposeBody ==
    /\ lpc = "done"
    /\ ~sceneDisposed
    /\ sceneDisposed' = TRUE
    /\ exhibits' = [i \in 1..Len(exhibits) |->
                      IF exhibits[i].listed
                      THEN [tvDispose(exhibits[i]) EXCEPT !.listed = FALSE]
                      ELSE exhibits[i]]
    /\ vintageTVs' = <<>>
    /\ UNCHANGED <<focus, lpc, wallIdx, placedTVs, tvIndex, attempts, tries,
                   randomSize>>
    /\ UNCHANGED <<outerTimer, innerTimers, playCalls, toggles>>

\* dispose() of the scene called by a host that is not the App
SceneDispose ==
    /\ SceneDisposeBody
    /\ op' = Op("sceneDispose", <<>>, "none")
    /\ UNCHANGED <<navState, appVars>>

---------------------------------------------------------------------------
(* App: the listeners, the frame loop, the keyboard shortcuts, dispose().  *)
(* Times are in thirds of a millisecond, so that the frame interval of     *)
(* 1000 / 60 ms is the integer 50, that of 1000 / 120 ms is 25 and that    *)
(* of 1000 / 30 ms is 100.                                                 *)

\* bound of the model: the number of requestAnimationFrame calls
MaxFrames == 4

\* private targetFPS = 60
initialTargetFPS == 60

\* thirds of a millisecond in a second
ThirdsPerSecond == 3000

\* 1000 / fps milliseconds
FrameIntervalOf(fps) == ThirdsPerSecond \div fps

\* the bounds App.initialize passes to setBounds
appBounds ==
    [f \in BoundFields |->
        CASE f = "minX" -> -700000 [] f = "maxX" -> 700000
          [] f = "minZ" -> -700000 [] f = "maxZ" -> 700000
          [] f = "minY" -> 100000  [] f = "maxY" -> 800000]

\* position.set(0, 2, 10)
resetPosition == <<0, 200000, 1000000>>

\* lookAt(0, 0, 0) from there: the camera pitches down by atan(2 / 10)
resetRotation == <<-19740, 0>>

\* handler.bind(this): a function that no earlier bind() has returned
Bind(handler, n) == <<handler, n>>

\* the three listeners of setupEventListeners and of dispose(), for bound
\* functions numbered from n + 1
AppHandlers(n) ==
    { [target |-> "window",   type |-> "resize",
       fn |-> Bind("onWindowResize", n + 1)],
      [target |-> "document", type |-> "keydown",
       fn |-> Bind("onKeyDown", n + 2)],
      [target |-> "document", type |-> "keyup",
       fn |-> Bind("onKeyUp", n + 3)] }

\* a listener calling App's handler is registered for the event
Registered(target, type, handler) ==
    \E l \in appListeners :
        l.target = target /\ l.type = type /\ l.fn[1] = handler

\* a frame callback that renders whatever time has passed
RendersFrameAlways(deltaTime, interval, short) == TRUE

\* animate(): if (deltaTime >= this.frameInterval).  Both sides are
\* doubles: when the time stamps are one interval apart, short tells
\* that the rounded difference falls below the rounded 1000 / fps
RendersFrame(deltaTime, interval, short) ==
    \/ deltaTime > interval
    \/ deltaTime = interval /\ ~short

\* this.animationId = requestAnimationFrame(() => this.animate())
RequestFrame(requests) ==
    /\ rafCount' = rafCount + 1
    /\ animationId' = rafCount + 1
    /\ frameRequests' = requests \cup {rafCount + 1}

\* stop(): the flag, and cancelAnimationFrame of the request on record
StopLoop ==
    /\ isRunning' = FALSE
    /\ IF animationId # 0
       THEN /\ frameRequests' = frameRequests \ {animationId}
            /\ animationId' = 0
       ELSE UNCHANGED <<frameRequests, animationId>>
    /\ UNCHANGED <<rafCount, lastTime, targetFPS, frameInterval, now, renders>>

\* the rest of initialize() once the scene is built: setBounds, the
\* listeners, start() with its first animate(), whose deltaTime is 0
AppInitialize ==
    /\ lpc = "done"
    /\ bindCount = 0
    /\ ~appDisposed
    /\ bounds' = MergeBounds(bounds, appBounds)
    /\ appListeners' = appListeners \cup AppHandlers(bindCount)
    /\ bindCount' = bindCount + 3
    /\ isRunning' = TRUE
    /\ lastTime' = now
    /\ RequestFrame(frameRequests)
    /\ op' = Op("initialize", <<>>, "none")
    /\ UNCHANGED <<targetFPS, frameInterval, now, renders, appDisposed>>
    /\ UNCHANGED <<isPointerLocked, keys, pitch, yaw, velocity, acceleration,
                   position, cameraRotation, listeners, pointerLockElement,
                   lockPending, exitPending, disposed, ticks, downRun, turns,
                   restRun, idleRun>>
    /\ UNCHANGED <<layoutVars, sceneVars>>

\* the application is set up
AppReady == bindCount > 0

\* start(): nothing on a running loop; else animate() with a deltaTime of 0
AppStart ==
    /\ AppReady
    /\ rafCount < MaxFrames
    /\ IF isRunning
       THEN UNCHANGED <<isRunning, lastTime, rafCount, animationId,
                        frameRequests>>
       ELSE /\ isRunning' = TRUE
            /\ lastTime' = now
            /\ RequestFrame(frameRequests)
    /\ op' = Op("start", <<>>, "none")
    /\ UNCHANGED <<targetFPS, frameInterval, now, renders, appListeners,
                   bindCount, appDisposed>>
    /\ UNCHANGED <<layoutVars, navState, sceneVars>>

\* stop()
AppStop ==
    /\ AppReady
    /\ StopLoop
    /\ op' = Op("stop", <<>>, "none")
    /\ UNCHANGED <<appListeners, bindCount, appDisposed>>
    /\ UNCHANGED <<layoutVars, navState, sceneVars>>

\* setTargetFPS(fps)
SetTargetFPS(fps) ==
    /\ AppReady
    /\ targetFPS' = fps
    /\ frameInterval' = FrameIntervalOf(fps)
    /\ op' = Op("setTargetFPS", fps, "none")
    /\ UNCHANGED <<isRunning, animationId, frameRequests, rafCount, lastTime,
                   now, renders, appListeners, bindCount, appDisposed>>
    /\ UNCHANGED <<layoutVars, navState, sceneVars>>

\* the host runs a requested frame callback dt after the last one: animate()
AppFrame(dt, short) ==
    /\ rafCount < MaxFrames
    /\ now' = now + dt
    /\ \E id \in frameRequests :
         IF ~isRunning
         THEN /\ frameRequests' = frameRequests \ {id}
              /\ UNCHANGED <<rafCount, animationId, lastTime, renders>>
              /\ op' = Op("animate", dt, "none")
              /\ UNCHANGED navState
         ELSE /\ RequestFrame(frameRequests \ {id})
              /\ IF RendersFrame(now' - lastTime, frameInterval, short)
                 THEN /\ \E noise \in NoiseInputs(cameraRotation, turns) :
                            ControlsUpdate(noise)
                      /\ renders' = renders + 1
                      /\ lastTime' = now'
                 ELSE /\ op' = Op("animate", dt, "none")
                      /\ UNCHANGED navState
                      /\ UNCHANGED <<renders, lastTime>>
    /\ UNCHANGED <<isRunning, targetFPS, frameInterval, appListeners,
                   bindCount, appDisposed>>
    /\ UNCHANGED <<layoutVars, sceneVars>>

\* keydown on the document: the controller's onKeyDown, then App.onKeyDown
\* with its switch on event.code
DocumentKeyDown(code) ==
    /\ AppReady
    /\ keys' = IF "keydown" \in listeners THEN keys \cup {code} ELSE keys
    /\ IF Registered("document", "keydown", "onKeyDown")
       THEN IF code = "KeyR"
            THEN /\ position' = resetPosition
                 /\ cameraRotation' = resetRotation
                 /\ op' = Op("resetCamera", code, "none")
                 /\ UNCHANGED <<exhibits, toggles>>
            ELSE IF code = "KeyV"
            THEN /\ toggles < MaxToggles
                 /\ toggles' = toggles + 1
                 /\ exhibits' = [i \in 1..Len(exhibits) |->
                                   IF exhibits[i].listed
                                   THEN toggleVideo(exhibits[i])
                                   ELSE exhibits[i]]
                 /\ op' = Op("toggleVideo", code, "none")
                 /\ UNCHANGED <<position, cameraRotation>>
            ELSE /\ op' = Op("onKeyDown", code, "none")
                 /\ UNCHANGED <<position, cameraRotation, exhibits, toggles>>
       ELSE /\ op' = Op("keydown", code, "none")
            /\ UNCHANGED <<position, cameraRotation, exhibits, toggles>>
    /\ UNCHANGED <<isPointerLocked, pitch, yaw, velocity, acceleration, bounds,
                   listeners, pointerLockElement, lockPending, exitPending,
                   disposed, ticks, downRun, turns, restRun, idleRun>>
    /\ UNCHANGED <<outerTimer, innerTimers, playCalls, sceneDisposed>>
    /\ UNCHANGED <<layoutVars, appVars>>

\* resize of the window: App.onWindowResize, if it is registered
WindowResize ==
    /\ AppReady
    /\ op' = IF Registered("window", "resize", "onWindowResize")
             THEN Op("onWindowResize", <<>>, "none")
             ELSE Op("resize", <<>>, "none")
    /\ UNCHANGED <<layoutVars, navState, sceneVars, appVars>>

\* App.dispose(): stop(), the components' dispose(), removeEventListener
\* with three functions bind() has just made
AppDispose ==
    /\ AppReady
    /\ ~appDisposed
    /\ appDisposed' = TRUE
    /\ StopLoop
    /\ ControlsDispose
    /\ SceneDisposeBody
    /\ appListeners' = appListeners \ AppHandlers(bindCount)
    /\ bindCount' = bindCount + 3

\* a click and a grant of the lock once the application is set up
AppClick == AppReady /\ Click

AppGrant == AppReady /\ HostGrant

---------------------------------------------------------------------------
(* Specifications.  Each drives the operations with its own input sets.    *)

\* the scene before addVintageTVWall has built anything
SceneInit ==
    /\ exhibits = <<>>
    /\ outerTimer = "none"
    /\ innerTimers = {}
    /\ playCalls = <<>>
    /\ toggles = 0
    /\ sceneDisposed = FALSE

\* no App has been constructed
AppIdle ==
    /\ isRunning = FALSE
    /\ animationId = 0
    /\ frameRequests = {}
    /\ rafCount = 0
    /\ lastTime = 0
    /\ targetFPS = initialTargetFPS
    /\ frameInterval = FrameIntervalOf(initialTargetFPS)
    /\ now = 0
    /\ renders = 0
    /\ appListeners = {}
    /\ bindCount = 0
    /\ appDisposed = FALSE

\* the layout of the four walls; the controller is idle
LayoutStart == LayoutInit /\ NavInit /\ SceneInit /\ AppIdle

SpecLayout == LayoutStart /\ [][LayoutNext]_vars

\* the layout with Math.random() varying on the front wall, the second
\* wall laid out
LayoutStartFront == LayoutStart /\ focus = 2

\* addVintageTVWall runs to its end uninterrupted: every step that can be
\* taken is taken
SpecLayoutFair ==
    LayoutStartFront /\ [][LayoutNext]_vars /\ WF_vars(LayoutNext)

LayoutIdle ==
    /\ focus = 1
    /\ lpc = "while"
    /\ wallIdx = 1
    /\ placedTVs = <<>>
    /\ tvIndex = 0
    /\ attempts = 0
    /\ tries = 0
    /\ randomSize = "none"
    /\ vintageTVs = <<>>

\* the controller as constructed, beside a layout that is not running
NavStart == LayoutIdle /\ NavInit /\ SceneInit /\ AppIdle

\* movement: capture, two keys, ticks, setBounds, turning by a quarter
NavKeys == {"KeyW", "Space"}
NavDX == {-157}
NavBounds ==
    { [f \in {"minX", "maxX"} |-> IF f = "minX" THEN -500 ELSE 500],
      [f \in {"minX"} |-> 800000] }

NavNext ==
    \/ Click
    \/ HostGrant
    \/ HostReject
    \/ HostRevoke
    \/ HostOtherLock
    \/ HostExit
    \/ Dispose
    \/ \E code \in NavKeys : KeyDown(code)
    \/ \E code \in NavKeys : KeyUp(code)
    \/ \E dx \in NavDX : MouseMove(dx, 0)
    \/ \E b \in NavBounds : SetBounds(b)
    \/ Update

SpecNav == NavStart /\ [][NavNext]_vars

\* keys across the capture states: KeyW goes down only while Released,
\* Space in either state; the pointer may look straight down and turn
KeysAnyTime == {"Space"}
KeysWhileReleased == {"KeyW"}
KeysDX == {0, 35, -120}
KeysDY == {200}

KeysNext ==
    \/ Click
    \/ HostGrant
    \/ HostReject
    \/ HostRevoke
    \/ Dispose
    \/ HostExit
    \/ \E code \in KeysAnyTime : KeyDown(code)
    \/ \E code \in KeysWhileReleased : ReleasedKeyDown(code)
    \/ \E code \in KeysAnyTime \cup KeysWhileReleased : KeyUp(code)
    \/ \E dx \in KeysDX, dy \in KeysDY : MouseMove(dx, dy)
    \/ Update

SpecKeys == NavStart /\ [][KeysNext]_vars

\* coasting: capture granted and a key pressed before the first frames, the
\* key let go and the capture revoked at any time, a long run of frames
CoastKeys == {"KeyW"}

CoastNext ==
    \/ CoastClick
    \/ CoastGrant
    \/ HostRevoke
    \/ \E code \in CoastKeys : CoastKeyDown(code)
    \/ \E code \in CoastKeys : KeyUp(code)
    \/ CoastUpdate

SpecCoast == NavStart /\ [][CoastNext]_vars

\* looking: capture, one key, pointer motion
LookKeys == {"KeyW"}
LookDX == {0, 100}
LookDY == {-200, 50, 200}

LookNext ==
    \/ Click
    \/ HostGrant
    \/ HostReject
    \/ HostRevoke
    \/ HostOtherLock
    \/ HostExit
    \/ Dispose
    \/ \E code \in LookKeys : KeyDown(code)
    \/ \E code \in LookKeys : KeyUp(code)
    \/ \E dx \in LookDX, dy \in LookDY : MouseMove(dx, dy)

SpecLook == NavStart /\ [][LookNext]_vars

\* the layout of the four walls, and the disposal of the scene it built
SceneNext ==
    \/ BeginAttempt
    \/ TryFails
    \/ TryPlaces
    \/ TriesExhausted
    \/ NextWall
    \/ LayoutDone
    \/ SceneDispose

SpecScene == LayoutStart /\ [][SceneNext]_vars

\* a layout during which Math.random() returns 0.5 throughout
LayoutMid ==
    /\ focus = 0
    /\ lpc = "while"
    /\ wallIdx = 1
    /\ placedTVs = <<>>
    /\ tvIndex = 0
    /\ attempts = 0
    /\ tries = 0
    /\ randomSize = "none"
    /\ vintageTVs = <<>>

ExhibitStart == LayoutMid /\ NavInit /\ SceneInit /\ AppIdle

\* the life of the exhibits: layout, staggered start, playback, the V key,
\* disposal of the scene
ExhibitNext ==
    \/ BeginAttempt
    \/ TryFails
    \/ TryPlaces
    \/ TriesExhausted
    \/ NextWall
    \/ LayoutDone
    \/ OuterTimerFires
    \/ InnerTimerFires
    \/ \E i \in 1..Len(exhibits) : PlayResolves(i)
    \/ \E i \in 1..Len(exhibits) : PlayRejects(i)
    \/ ToggleVideo
    \/ SceneDispose

SpecExhibit == ExhibitStart /\ [][ExhibitNext]_vars

\* the application: the scene is laid out, initialize() completes, then
\* frames 1/120 s or 1/60 s apart, keys, resizes, start(), stop(),
\* dispose(), and setTargetFPS for 30, 60 or 120 frames a second
FrameGaps == {25, 50}
FpsValues == {30, 60, 120}
AppKeys == {"KeyR", "KeyH", "KeyW"}

AppNext ==
    \/ BeginAttempt
    \/ TryFails
    \/ TryPlaces
    \/ TriesExhausted
    \/ NextWall
    \/ LayoutDone
    \/ AppInitialize
    \/ AppStart
    \/ AppStop
    \/ \E dt \in FrameGaps, short \in BOOLEAN : AppFrame(dt, short)
    \/ \E fps \in FpsValues : SetTargetFPS(fps)
    \/ \E code \in AppKeys : DocumentKeyDown(code)
    \/ WindowResize
    \/ AppDispose
    \/ AppClick
    \/ AppGrant

SpecApp == ExhibitStart /\ [][AppNext]_vars

---------------------------------------------------------------------------
(* Properties                                                              *)

\* the exhibit instance built for the i-th footprint of the wall in progress
ExhibitOf(i) == vintageTVs[Len(vintageTVs) - Len(placedTVs) + i]

Separated(a, b) ==
    \/ 2 * Abs(a.x - b.x) >= a.width + b.width
    \/ 2 * Abs(a.y - b.y) >= a.height + b.height

(* C1: on every wall, after every placement and when the wall is complete, *)
(* any two recorded footprints (x1,y1,w1,h1), (x2,y2,w2,h2) satisfy        *)
(* |x1-x2| >= (w1+w2)/2 or |y1-y2| >= (h1+h2)/2.                           *)
C1_NoOverlap ==
    \A i, j \in 1..Len(placedTVs) :
        i # j => Separated(placedTVs[i], placedTVs[j])

\* the layout is complete and the last wall holds two footprints that are
\* apart on one axis only
C1_Witness ==
    /\ lpc = "done"
    /\ \E i, j \in 1..Len(placedTVs) :
         /\ i # j
         /\ 2 * Abs(placedTVs[i].x - placedTVs[j].x)
              < placedTVs[i].width + placedTVs[j].width

(* C2: for every placed exhibit the size class whose width and height the  *)
(* packer used is the declared size of the exhibit instance put at that    *)
(* anchor.                                                                 *)
C2_PackerSizeIsDeclaredSize ==
    \A i \in 1..Len(placedTVs) :
        /\ placedTVs[i].width = sizeConfigs[ExhibitOf(i).size].width
        /\ placedTVs[i].height = sizeConfigs[ExhibitOf(i).size].height

\* world coordinate along the wall (X on back/front, Z on left/right)
WorldHorizontal(tv) ==
    IF tv.wall \in {"left", "right"} THEN tv.position[3] ELSE tv.position[1]

\* world coordinate up the wall (Y)
WorldVertical(tv) == tv.position[2]

(* C3: on every wall the world-space footprints of any two exhibits, width *)
(* along the wall's horizontal axis and height along the vertical axis,    *)
(* centred at the exhibit's world position, do not overlap.                *)
C3_WorldFootprintsDisjoint ==
    \A i, j \in 1..Len(placedTVs) :
        i # j =>
            \/ 2 * Abs(WorldHorizontal(ExhibitOf(i)) - WorldHorizontal(ExhibitOf(j)))
                 >= placedTVs[i].width + placedTVs[j].width
            \/ 2 * Abs(WorldVertical(ExhibitOf(i)) - WorldVertical(ExhibitOf(j)))
                 >= placedTVs[i].height + placedTVs[j].height

InBounds(p, b) ==
    /\ b.minX <= p[1] /\ p[1] <= b.maxX
    /\ b.minY <= p[2] /\ p[2] <= b.maxY
    /\ b.minZ <= p[3] /\ p[3] <= b.maxZ

(* C4 as stated: after every tick the camera position is within the bounds *)
(* in force, whatever events and setBounds calls came before.              *)
C4_InBoundsAfterEveryTick ==
    op.name = "update" => InBounds(position, bounds)

(* C4 as amended: after every tick issued while Captured each coordinate   *)
(* is at least its minimum, and at most its maximum whenever the bounds in *)
(* force have minimum <= maximum on that axis.                             *)
C4_InBoundsAfterCapturedTick ==
    (op.name = "update" /\ isPointerLocked) =>
        /\ bounds.minX <= position[1]
        /\ bounds.minY <= position[2]
        /\ bounds.minZ <= position[3]
        /\ bounds.minX <= bounds.maxX => position[1] <= bounds.maxX
        /\ bounds.minY <= bounds.maxY => position[2] <= bounds.maxY
        /\ bounds.minZ <= bounds.maxZ => position[3] <= bounds.maxZ

\* a Captured tick has clamped x to minX while the velocity still pushes out
C4_Witness ==
    /\ op.name = "update" /\ isPointerLocked
    /\ bounds.minX <= bounds.maxX
    /\ position[1] = bounds.minX
    /\ velocity[1] < 0

(* C5: pitch stays in [-pi/2, pi/2]; a run of downward pointer deltas that *)
(* adds up to 2*pi or more leaves pitch at -pi/2 (it saturates and does    *)
(* not wrap); from that limit an opposite delta moves pitch back at once.  *)
C5_PitchSaturates ==
    /\ [](/\ -PiHalf <= pitch /\ pitch <= PiHalf
          /\ downRun * lookSensitivity >= TwoPi => pitch = -PiHalf)
    /\ [][(/\ op'.name = "mousemove"
           /\ "mousemove" \in listeners /\ isPointerLocked
           /\ pitch = -PiHalf
           /\ op'.arg[2] < 0)
          => (/\ pitch' > -PiHalf
              /\ pitch' = Min(PiHalf, -PiHalf - op'.arg[2] * lookSensitivity))]_vars

\* downward deltas worth at least 2*pi have been delivered in a row
C5_Witness ==
    /\ downRun * lookSensitivity >= TwoPi
    /\ pitch = -PiHalf
    /\ op.name = "mousemove"

(* C6: when dispose() is called while Captured the controller ends         *)
(* Released: once the host has released the lock, isPointerLocked is false. *)
C6_DisposeEndsReleased ==
    (disposed /\ ~exitPending) => ~isPointerLocked

(* C7: after dispose() no handler of the controller is registered and no   *)
(* later host event changes the key set, yaw, pitch, the camera rotation   *)
(* or the capture flag, or issues a capture request.                       *)
C7_NoHandlerAfterDispose ==
    [][disposed =>
        /\ listeners' = {}
        /\ keys' = keys
        /\ yaw' = yaw
        /\ pitch' = pitch
        /\ cameraRotation' = cameraRotation
        /\ isPointerLocked' = isPointerLocked
        /\ lockPending' => lockPending
        /\ op'.call # "requestPointerLock"]_vars

\* a pointer-motion event delivered after a disposal in the Captured state
C7_Witness ==
    /\ disposed
    /\ isPointerLocked
    /\ op.name = "mousemove"
    /\ op.arg[2] # 0

(* C9: a tick issued while Released changes nothing: position, velocity,   *)
(* acceleration, yaw and pitch stay as they were, whatever keys are held.  *)
C9_ReleasedTickIsNoOp ==
    [][(ticks' # ticks /\ ~isPointerLocked) =>
        UNCHANGED <<position, velocity, acceleration, yaw, pitch,
                    cameraRotation, keys, bounds, isPointerLocked>>]_vars

\* a Released tick with a key held and the camera still in motion
C9_Witness ==
    /\ op.name = "update"
    /\ ~isPointerLocked
    /\ "KeyW" \in keys
    /\ velocity # Zero3

(* C10: the state becomes Captured only when the host reports the lock on  *)
(* the controller's own element; a click while Released only issues a      *)
(* request; a rejected request leaves the state Released and changes       *)
(* nothing else, so that a later click requests again; a click while       *)
(* Captured issues no request.                                             *)
C10_CaptureOnlyOnOwnLock ==
    /\ [](~disposed => (isPointerLocked <=> pointerLockElement = "own"))
    /\ [][/\ (~isPointerLocked /\ isPointerLocked') =>
               (op'.name = "pointerlockchange" /\ pointerLockElement' = "own")
          /\ op'.name = "click" =>
               /\ isPointerLocked' = isPointerLocked
               /\ pointerLockElement' = pointerLockElement
               /\ (op'.call = "requestPointerLock")
                    <=> (~isPointerLocked /\ "click" \in listeners)
               /\ (op'.call = "requestPointerLock") => lockPending'
          /\ op'.name = "pointerlockerror" =>
               /\ ~lockPending'
               /\ UNCHANGED <<isPointerLocked, keys, pitch, yaw, velocity,
                              acceleration, bounds, position, cameraRotation,
                              listeners, pointerLockElement>>]_vars

\* the host has rejected a request and the controller is still Released
C10_Witness ==
    /\ op.name = "pointerlockerror"
    /\ ~isPointerLocked
    /\ ~lockPending
    /\ ~disposed

(* C11: yaw, pitch and the camera rotation change only by a pointer-motion *)
(* event in the Captured state; such an event with delta (dx, dy),         *)
(* delivered to a controller that has not been disposed, sets yaw to       *)
(* yaw - dx * sensitivity and pitch to clamp(pitch - dy * sensitivity); a  *)
(* pointer-motion event in the Released state leaves all three as they     *)
(* were.                                                                   *)
C11_LookOnlyWhileCaptured ==
    [][/\ (yaw' # yaw \/ pitch' # pitch \/ cameraRotation' # cameraRotation)
            => (op'.name = "mousemove" /\ isPointerLocked)
       /\ (op'.name = "mousemove" /\ ~isPointerLocked)
            => UNCHANGED <<yaw, pitch, cameraRotation>>
       /\ (op'.name = "mousemove" /\ isPointerLocked /\ ~disposed)
            => /\ yaw' = yaw - op'.arg[1] * lookSensitivity
               /\ pitch' = Max(-PiHalf,
                               Min(PiHalf, pitch - op'.arg[2] * lookSensitivity))
               /\ cameraRotation' = <<pitch', yaw'>>]_vars

\* a Captured pointer motion has turned the camera sideways and up, short of
\* the pitch limit
C11_Witness ==
    /\ op.name = "mousemove"
    /\ isPointerLocked /\ ~disposed
    /\ op.arg[1] # 0 /\ op.arg[2] < 0
    /\ yaw # 0
    /\ pitch > 0 /\ pitch < PiHalf

(* C12: key-down and key-up events update the held-key set in both capture *)
(* states of a live controller: after key-down of k the key is held, after *)
(* key-up of k it is not, and no other key changes.  The Captured tick     *)
(* reads the held keys, whenever they were pressed: a key pressed while    *)
(* Released and held since accelerates the camera at the first Captured    *)
(* tick (in the horizontal plane for KeyW, up by the acceleration constant *)
(* for Space), and a key that is no longer held contributes nothing.       *)
C12_KeysHeldInBothStates ==
    [][/\ (op'.name = "keydown" /\ ~disposed)
            => keys' = keys \cup {op'.arg}
       /\ (op'.name = "keyup" /\ ~disposed)
            => keys' = keys \ {op'.arg}
       /\ (op'.name = "update" /\ isPointerLocked)
            => /\ ("KeyW" \in keys /\ "KeyS" \notin keys)
                    => (acceleration'[1] # 0 \/ acceleration'[3] # 0)
               /\ ("Space" \in keys /\ "ShiftLeft" \notin keys)
                    => acceleration'[2] = moveSpeed
               /\ ("Space" \notin keys /\ "ShiftLeft" \notin keys)
                    => acceleration'[2] = 0
               /\ keys \cap {"KeyW", "KeyS", "KeyA", "KeyD"} = {}
                    => (acceleration'[1] = 0 /\ acceleration'[3] = 0)]_vars

(* C13: releasing capture when already Released is a no-op: a lock-change  *)
(* event that reports no lock on the controller's element, or a dispose(), *)
(* in the Released state leaves the state Released, makes no call of the   *)
(* host's exitPointerLock and changes none of the held keys, yaw, pitch,   *)
(* camera rotation, velocity, acceleration, position and bounds.           *)
C13_ReleaseWhenReleasedIsNoOp ==
    [][(/\ ~isPointerLocked
        /\ \/ op'.name = "pointerlockchange" /\ op'.arg # "own"
           \/ op'.name = "dispose")
       => /\ ~isPointerLocked'
          /\ op'.call = "none"
          /\ exitPending' = exitPending
          /\ "mousemove" \notin listeners'
          /\ UNCHANGED <<keys, yaw, pitch, cameraRotation, velocity,
                         acceleration, position, bounds>>]_vars

\* the lock another element held is released while the controller, still
\* Released, waits for the answer to its own request
C13_Witness ==
    /\ op.name = "pointerlockchange" /\ op.arg = "none"
    /\ lockPending
    /\ ~isPointerLocked
    /\ ~disposed

(* C14 as stated: on every tick with no key held a velocity that is not    *)
(* yet zero strictly decreases in magnitude, and after enough such ticks   *)
(* in a row (40, from 0.08 * 0.95^41 < 0.01) the magnitude is below the    *)
(* epsilon 0.01 under which the controller no longer counts as moving.     *)
C14_DecayOnEveryIdleTick ==
    /\ [](idleRun >= 40 =>
            LengthSq(velocity) < movingThreshold * movingThreshold)
    /\ [][(ticks' # ticks /\ keys = {} /\ velocity # Zero3)
            => LengthSq(velocity') < LengthSq(velocity)]_vars

(* C14 as amended: on every tick issued while Captured with no key held a  *)
(* velocity that is not yet zero strictly decreases in magnitude, and      *)
(* after 40 such ticks the magnitude is below the epsilon 0.01; a tick     *)
(* issued while Released leaves the velocity as it is.                     *)
C14_DecayOnCapturedIdleTick ==
    /\ [](restRun >= 40 =>
            LengthSq(velocity) < movingThreshold * movingThreshold)
    /\ [][/\ (ticks' # ticks /\ isPointerLocked /\ keys = {} /\ velocity # Zero3)
               => LengthSq(velocity') < LengthSq(velocity)
          /\ (ticks' # ticks /\ ~isPointerLocked)
               => velocity' = velocity]_vars

\* forty Captured ticks with no key held have brought the camera from the
\* highest speed a tick leaves to just under the epsilon
C14_Witness ==
    /\ op.name = "update"
    /\ isPointerLocked
    /\ restRun = 40
    /\ LengthSq(velocity) >= 900 * 900
    /\ LengthSq(velocity) < movingThreshold * movingThreshold

\* 1000 * 0.08 * 0.95^k in the units of the velocity, rounded down
RECURSIVE Decay(_)
Decay(k) ==
    IF k = 0 THEN maxVelocity * 1000
    ELSE (Decay(k - 1) * friction) \div FrictionDen

(* C15 as stated: after every tick the velocity magnitude is at most the   *)
(* maximum speed 0.08, and when forward was held for 10 ticks and then let *)
(* go for 20 ticks the magnitude at tick 30 is at most 0.08 * 0.95^20.     *)
C15_SpeedLimitAndDecayAtTick30 ==
    /\ LengthSq(velocity) <= maxVelocity * maxVelocity
    /\ (ticks = 30 /\ idleRun = 20) => 1000 * Length(velocity) <= Decay(20)

(* C15 as amended: after every tick the velocity magnitude is at most the  *)
(* maximum speed 0.08, and after k ticks in the Captured state with no key *)
(* held it is at most 0.08 * 0.95^k: forward held for 10 ticks and let go  *)
(* for 20 ticks, all issued while Captured, give at most 0.08 * 0.95^20 at *)
(* tick 30.                                                                *)
C15_SpeedLimitAndCapturedDecay ==
    /\ LengthSq(velocity) <= maxVelocity * maxVelocity
    /\ 1000 * Length(velocity) <= Decay(restRun)

\* forward held for ticks 1..10, reaching the speed limit, then let go for
\* ticks 11..30, all Captured
C15_Witness ==
    /\ op.name = "update"
    /\ isPointerLocked
    /\ ticks = 30
    /\ restRun = 20 /\ idleRun = 20
    /\ Length(velocity) >= 2700

\* the number of exhibits of the scene that hang on the wall of that name
OnWall(name) ==
    Cardinality({i \in 1..Len(vintageTVs) : vintageTVs[i].wall = name})

(* C16: on each wall the loop makes at most maxAttempts outer attempts and *)
(* places at most maxTVsPerWall exhibits; every attempt, successful or     *)
(* not, takes exactly one unit of the wall's attempt counter, and no       *)
(* attempt starts once either limit is reached; the layout terminates; the *)
(* next wall starts with fresh counters and an empty footprint list while  *)
(* the exhibits of the walls before it stay in the scene.                  *)
C16_BudgetsAndTermination ==
    /\ [](/\ attempts <= maxAttempts
           /\ tvIndex <= maxTVsPerWall
           /\ tvIndex <= attempts
           /\ Len(placedTVs) = tvIndex)
    /\ [][/\ (lpc = "while" /\ lpc' = "tries")
               => /\ attempts' = attempts + 1
                  /\ tvIndex < maxTVsPerWall /\ attempts < maxAttempts
          /\ (attempts' # attempts /\ wallIdx' = wallIdx)
               => (lpc = "while" /\ lpc' = "tries")
          /\ wallIdx' # wallIdx
               => /\ wallIdx' = wallIdx + 1
                  /\ tvIndex = maxTVsPerWall \/ attempts = maxAttempts
                  /\ attempts' = 0 /\ tvIndex' = 0 /\ placedTVs' = <<>>
                  /\ vintageTVs' = vintageTVs]_vars
    /\ <>(lpc = "done")

\* both exits of the loop: the first wall was left on the attempts limit
\* with one exhibit placed, and the second wall has reached the placement
\* limit with an attempt to spare, so that no further attempt starts
C16_Witness ==
    /\ lpc = "while"
    /\ wallIdx = 2
    /\ OnWall(walls[1].name) = 1
    /\ OnWall(walls[1].name) < maxTVsPerWall
    /\ tvIndex = maxTVsPerWall
    /\ attempts < maxAttempts
    /\ ~WhileCondition

(* C17: on a wall with no footprint yet the first sampling try of the      *)
(* first attempt succeeds, so no try ever fails on an empty wall, every    *)
(* wall the loop leaves holds at least one exhibit, and after the layout   *)
(* each of the four walls does.                                            *)
C17_FirstTryOnEmptyWallSucceeds ==
    /\ []((lpc = "tries" /\ placedTVs = <<>>) => (tries = 0 /\ attempts = 1))
    /\ [](lpc = "done" =>
            \A w \in 1..Len(walls) : OnWall(walls[w].name) >= 1)
    /\ [][/\ (lpc = "tries" /\ placedTVs = <<>>)
               => (Len(placedTVs') = 1 /\ tvIndex' = 1 /\ lpc' = "while")
          /\ wallIdx' # wallIdx
               => (tvIndex >= 1 /\ OnWall(walls[wallIdx].name) >= 1)]_vars

\* the first attempt on the left wall has just placed that wall's first
\* exhibit
C17_Witness ==
    /\ lpc = "while"
    /\ wallIdx = 3
    /\ attempts = 1 /\ tries = 0
    /\ tvIndex = 1 /\ Len(placedTVs) = 1
    /\ OnWall("left") = 1

\* sequence a is the beginning of sequence b
IsPrefix(a, b) == Len(a) <= Len(b) /\ SubSeq(b, 1, Len(a)) = a

(* C18: a failed try or a failed attempt leaves the wall's footprint list, *)
(* the placed count and the scene's exhibit list, with every earlier       *)
(* exhibit's anchor and transform, as they were; while a wall is laid out  *)
(* its footprint list changes only by one footprint appended, and the      *)
(* scene's exhibit list only ever grows by one exhibit appended.           *)
C18_FailedAttemptChangesNothingPlaced ==
    [][/\ (wallIdx' = wallIdx /\ tvIndex' <= tvIndex)
            => UNCHANGED <<placedTVs, tvIndex, vintageTVs>>
       /\ (lpc = "tries" /\ tries' = tries + 1)
            => UNCHANGED <<placedTVs, tvIndex, vintageTVs>>
       /\ wallIdx' = wallIdx
            => /\ IsPrefix(placedTVs, placedTVs')
               /\ Len(placedTVs') <= Len(placedTVs) + 1
       /\ IsPrefix(vintageTVs, vintageTVs')
       /\ Len(vintageTVs') <= Len(vintageTVs) + 1]_vars

\* the second attempt on a wall has failed all its tries and the exhibit
\* the first attempt placed is still the wall's only one
C18_Witness ==
    /\ lpc = "while"
    /\ tries = TriesPerAttempt
    /\ attempts = 2
    /\ tvIndex = 1 /\ Len(placedTVs) = 1
    /\ Len(vintageTVs) >= 1

\* the footprint's coordinate along the wall and up the wall: on the back
\* and front walls x runs along and y up, on the left and right walls y
\* runs along and x up
Along(wall, footprint) == IF isSideWall(wall) THEN footprint.y ELSE footprint.x
Up(wall, footprint) == IF isSideWall(wall) THEN footprint.x ELSE footprint.y

(* C19: every accepted anchor keeps its footprint of size w x h inside the *)
(* 15 x 8 wall: the coordinate along the wall is in [-(15-w)/2, (15-w)/2]  *)
(* and the coordinate up the wall in [h/2, 8-h/2]; these are x and y on    *)
(* the back and front walls, y and x on the left and right walls.          *)
C19_AnchorsInsideWall ==
    \A i \in 1..Len(placedTVs) :
        LET wall == walls[wallIdx]
            tv == placedTVs[i]
        IN  /\ 2 * Along(wall, tv) >= -(roomSize - tv.width)
            /\ 2 * Along(wall, tv) <= roomSize - tv.width
            /\ 2 * Up(wall, tv) >= tv.height
            /\ 2 * Up(wall, tv) <= 2 * wallHeight - tv.height
            /\ 2 * Along(wall, tv) - tv.width >= -roomSize
            /\ 2 * Along(wall, tv) + tv.width <= roomSize
            /\ 2 * Up(wall, tv) - tv.height >= 0
            /\ 2 * Up(wall, tv) + tv.height <= 2 * wallHeight

\* on the left wall a footprint stands on the floor line, its anchor half
\* its height up, and another one is off the wall's centre line
C19_Witness ==
    /\ wallIdx = 3
    /\ \E i, j \in 1..Len(placedTVs) :
         /\ 2 * placedTVs[i].x = placedTVs[i].height
         /\ placedTVs[j].y > 0

(* C20: the world transform of a placed exhibit is a fixed function of its *)
(* wall and anchor: on the back and front walls the position is (anchor.x, *)
(* anchor.y, -7.4 or +7.4) and the yaw 0 or pi; on the left and right      *)
(* walls it is (-7.4 or +7.4, anchor.x, anchor.y) and the yaw pi/2 or      *)
(* -pi/2; the coordinate across the wall is the same for every exhibit of  *)
(* the wall.  (7.4 is 1480 units of 0.005; the yaw is in quarter turns.)   *)
C20_WorldTransformByWall ==
    /\ \A i \in 1..Len(placedTVs) :
         LET a == placedTVs[i]
             tv == ExhibitOf(i)
         IN  /\ tv.wall = walls[wallIdx].name
             /\ tv.wall = "back" =>
                    (tv.position = <<a.x, a.y, -1480>> /\ tv.rotation = 0)
             /\ tv.wall = "front" =>
                    (tv.position = <<a.x, a.y, 1480>> /\ tv.rotation = 2)
             /\ tv.wall = "left" =>
                    (tv.position = <<-1480, a.x, a.y>> /\ tv.rotation = 1)
             /\ tv.wall = "right" =>
                    (tv.position = <<1480, a.x, a.y>> /\ tv.rotation = -1)
    /\ \A k \in 1..Len(vintageTVs) :
         LET tv == vintageTVs[k]
         IN  /\ tv.wall = "back" => tv.position[3] = -1480
             /\ tv.wall = "front" => tv.position[3] = 1480
             /\ tv.wall = "left" => tv.position[1] = -1480
             /\ tv.wall = "right" => tv.position[1] = 1480

\* an exhibit on the right wall whose anchor is off the centre line, after
\* exhibits on the other three walls
C20_Witness ==
    /\ wallIdx = 4
    /\ \E i \in 1..Len(placedTVs) :
         /\ placedTVs[i].y # 0
         /\ ExhibitOf(i).position =
                <<1480, placedTVs[i].x, placedTVs[i].y>>
         /\ ExhibitOf(i).rotation = -1
    /\ OnWall("back") >= 1 /\ OnWall("front") >= 1 /\ OnWall("left") >= 1

---------------------------------------------------------------------------
\* the video elements that have a parent node
LiveVideoElements == {i \in 1..Len(exhibits) : exhibits[i].inBody}

\* C21: no video element of a discarded attempt survives.  All through the
\* layout, and after it until dispose(), every exhibit constructed is in the
\* scene's list, so the live video elements are as many as the exhibits
\* placed; once the scene is disposed no video element is live and the list
\* is empty.
C21_NoLeakedVideoElements ==
    /\ ~sceneDisposed =>
         /\ \A i \in 1..Len(exhibits) : exhibits[i].listed
         /\ Cardinality(LiveVideoElements) = Len(vintageTVs)
         /\ Len(exhibits) = Len(vintageTVs)
    /\ sceneDisposed =>
         /\ LiveVideoElements = {}
         /\ vintageTVs = <<>>

\* C21 witness: the layout discarded attempts on its last wall and placed
\* at least five exhibits, and the scene has been disposed
C21_Witness ==
    /\ sceneDisposed
    /\ lpc = "done"
    /\ attempts > tvIndex
    /\ Len(exhibits) >= 5

---------------------------------------------------------------------------
\* C22: the staggered start begins only after the whole layout is done and
\* goes in placement order: the k-th playVideo() call of the timers is on
\* the k-th exhibit placed, at 2000 + 200 * (k - 1) ms, so an earlier
\* exhibit is called before a later one and none is called twice.
C22_StaggeredStartInPlacementOrder ==
    /\ (outerTimer # "none" \/ innerTimers # {} \/ playCalls # <<>>)
          => lpc = "done"
    /\ Len(playCalls) <= Len(exhibits)
    /\ \A k \in 1..Len(playCalls) :
          /\ playCalls[k].tv = k
          /\ playCalls[k].at = 2000 + 200 * (k - 1)
    /\ \A t \in innerTimers : \A k \in 1..Len(playCalls) : playCalls[k].tv < t.tv

\* C22 witness: the timers have called playVideo() on all four exhibits of
\* a scene that is still in use
C22_Witness ==
    /\ ~sceneDisposed
    /\ Len(vintageTVs) = 4
    /\ Len(playCalls) = 4
    /\ innerTimers = {}

---------------------------------------------------------------------------
\* C23: a rejected play request is absorbed.  The exhibit was not playing
\* and is not playing afterwards, its screen keeps the map it had, it stays
\* in the scene's list with its element where it was, every other exhibit
\* is exactly as before, and a playVideo() after the rejection asks the
\* element to play again.
C23_PlayFailureAbsorbed ==
    [][ op'.name = "playRejected" =>
          LET i == op'.arg
          IN  /\ ~exhibits[i].isPlaying
              /\ ~exhibits'[i].isPlaying
              /\ exhibits'[i].screenMap = exhibits[i].screenMap
              /\ exhibits'[i].listed = exhibits[i].listed
              /\ exhibits'[i].inBody = exhibits[i].inBody
              /\ vintageTVs' = vintageTVs
              /\ Len(exhibits') = Len(exhibits)
              /\ \A j \in 1..Len(exhibits) : j # i => exhibits'[j] = exhibits[j]
              /\ playVideo(exhibits'[i]).pendingPlays = 1 ]_vars

\* C23 witness: the play request of an exhibit of the scene has just been
\* rejected while its screen is blank and another exhibit is playing
C23_Witness ==
    /\ op.name = "playRejected"
    /\ ~sceneDisposed
    /\ exhibits[op.arg].listed
    /\ exhibits[op.arg].screenMap = "none"
    /\ exhibits[op.arg].pendingPlays = 0
    /\ \E j \in 1..Len(exhibits) : exhibits[j].isPlaying

---------------------------------------------------------------------------
\* C24: the clamp of the position leaves the velocity alone.  After a tick
\* issued while Captured the velocity is the sum of the old velocity and
\* the new acceleration, limited in speed and then decayed, whatever the
\* clamp did; and each coordinate of the position is its own tentative
\* value, old coordinate plus new velocity, clamped to its own pair of
\* bounds, so a clamp on one axis does not change the step on the others.
C24_ClampKeepsVelocity ==
    [][ (op'.name = "update" /\ isPointerLocked) =>
          LET v == ApplyFriction(LimitSpeed(VecAdd(velocity, acceleration')))
              t == VecAdd(position, v)
          IN  /\ velocity' = v
              /\ position'[1] = Max(bounds.minX, Min(bounds.maxX, t[1]))
              /\ position'[2] = Max(bounds.minY, Min(bounds.maxY, t[2]))
              /\ position'[3] = Max(bounds.minZ, Min(bounds.maxZ, t[3])) ]_vars

\* C24 witness: a Captured tick has clamped x to the lower bound of a room
\* 1000 wide, the velocity still points into that bound with a step longer
\* than the room is wide, and the camera is rising
C24_Witness ==
    /\ op.name = "update"
    /\ isPointerLocked
    /\ bounds.minX = -500
    /\ bounds.maxX = 500
    /\ position[1] = bounds.minX
    /\ velocity[1] < -1000
    /\ velocity[2] > 0
    /\ position[2] > 200000

---------------------------------------------------------------------------
\* C25: setBounds with a subset of the six fields replaces those fields
\* and keeps the others as they were, and it changes nothing else: the
\* velocity, the position (inside the new bounds or not), yaw, pitch, the
\* held keys and the capture state are as before.
C25_SetBoundsReplacesGivenFieldsOnly ==
    [][ op'.name = "setBounds" =>
          /\ \A f \in BoundFields :
                bounds'[f] = IF f \in DOMAIN op'.arg THEN op'.arg[f]
                             ELSE bounds[f]
          /\ velocity' = velocity
          /\ position' = position
          /\ yaw' = yaw
          /\ pitch' = pitch
          /\ keys' = keys
          /\ isPointerLocked' = isPointerLocked ]_vars

\* C25 witness: while Captured and moving, setBounds has been given minX
\* alone; the maxX of an earlier call is still in force and the camera is
\* now outside the bounds
C25_Witness ==
    /\ op.name = "setBounds"
    /\ DOMAIN op.arg = {"minX"}
    /\ bounds.minX = op.arg.minX
    /\ bounds.maxX = 500
    /\ bounds.maxZ = 700000
    /\ isPointerLocked
    /\ velocity # Zero3
    /\ position[1] < bounds.minX

---------------------------------------------------------------------------
\* C26: the frame loop.  The host never holds more than one frame callback
\* of the App, and none while the loop is stopped.  Every render comes in
\* a frame callback of the running loop, with exactly one update() in that
\* same callback and a frame interval or more since lastTime; there is no
\* update() without its render; a callback that comes sooner does neither;
\* start() on a running loop requests nothing; and while the loop is
\* stopped nothing ticks or renders.
C26_OneTickPerRenderedFrame ==
    /\ [](Cardinality(frameRequests) <= 1)
    /\ [](~isRunning => frameRequests = {})
    /\ [][ /\ renders' # renders =>
                /\ renders' = renders + 1
                /\ ticks' = ticks + 1
                /\ isRunning
                /\ now' # now
                /\ now' - lastTime >= frameInterval
                /\ lastTime' = now'
           /\ ticks' # ticks => renders' = renders + 1
           /\ (now' # now /\ now' - lastTime < frameInterval) =>
                (ticks' = ticks /\ renders' = renders /\ lastTime' = lastTime)
           /\ (op'.name = "start" /\ isRunning) =>
                (frameRequests' = frameRequests /\ rafCount' = rafCount)
           /\ ~isRunning => (ticks' = ticks /\ renders' = renders) ]_vars

\* C26 witness: after two rendered frames, each with its tick, a frame
\* callback has come half an interval after the last render and has done
\* neither
C26_Witness ==
    /\ isRunning
    /\ renders = 2
    /\ ticks = 2
    /\ op.name = "animate"
    /\ frameInterval = 50
    /\ now - lastTime = 25

---------------------------------------------------------------------------
\* C27: the camera position is inside the navigation bounds in force in
\* every state of the application, the state after the camera reset of key
\* R included.
C27_PositionAlwaysInBounds == InBounds(position, bounds)

---------------------------------------------------------------------------
\* C28: once App.dispose() has run, none of the App's listeners is left,
\* and no key press or resize runs a handler of the App.
C28_NoAppHandlerAfterDispose ==
    appDisposed =>
        /\ appListeners = {}
        /\ op.name \notin {"resetCamera", "toggleVideo", "onKeyDown",
                           "onWindowResize"}

---------------------------------------------------------------------------
\* C29: once ExhibitionScene.dispose() has run, the timers of the staggered
\* start call playVideo() on no exhibit, and no exhibit has a play request
\* outstanding or is playing, wherever dispose() falls between the timers.
C29_NoPlaybackAfterSceneDispose ==
    sceneDisposed =>
        /\ op.name # "playVideo"
        /\ \A i \in 1..Len(exhibits) :
              ~exhibits[i].isPlaying /\ exhibits[i].pendingPlays = 0

---------------------------------------------------------------------------
\* the exhibit is playing or has asked its element to play
PlaybackOn(tv) == tv.isPlaying \/ tv.pendingPlays > 0

\* the exhibit was playing or had asked to play before the toggleVideo()
\* that has just left it as tv: a toggle pauses a playing exhibit and adds
\* one play request to any other
PlaybackOnBeforeToggle(tv) ==
    IF tv.pendingPlays >= 1 THEN tv.pendingPlays >= 2 ELSE TRUE

\* C30: no exhibit ever has more than one play request outstanding, and a
\* toggleVideo() that directly follows another, with no play request
\* settled in between, leaves every exhibit of the scene in the playback
\* state it had before the first of the two.
C30_DoubleToggleRestoresPlayback ==
    [][ /\ \A i \in 1..Len(exhibits') : exhibits'[i].pendingPlays <= 1
        /\ (op.name = "toggleVideo" /\ op'.name = "toggleVideo") =>
              \A i \in 1..Len(exhibits) :
                  exhibits[i].listed =>
                      PlaybackOn(exhibits'[i])
                          = PlaybackOnBeforeToggle(exhibits[i]) ]_vars

===========================================================================
